---------------------------- MODULE Spec2Model ----------------------------
(***************************************************************************)
(* selfserv: the HTTP request parser (src/src/http/HttpRequest.cpp) and    *)
(* the connection engine (src/src/server/Server.cpp).                      *)
(*                                                                         *)
(* Byte strings are sequences of one-character strings.  Offsets are the   *)
(* 0-based offsets of the C++ code; data[i + 1] is the byte at offset i.   *)
(***************************************************************************)
EXTENDS Integers, Sequences, FiniteSets, TLC

VARIABLES
  pstream,   \* parser harness: the bytes offered to Parse (request, then tail)
  pspec,     \* parser harness: how pstream was built (kind, payload, spelling)
  pfed,      \* parser harness: length of the prefix given to the last Parse call
  parser,    \* HttpRequestParser members
  preq,      \* the HttpRequest filled in by Parse
  pret,      \* return value of the last Parse call
  pcalls,    \* parser harness: Parse calls since construction or Reset, up to MaxCalls
  handles,   \* FD harness: the FD objects that exist, each with its m_fd
  kernel     \* FD harness: the descriptors that are open, and who else holds them

\* the FD harness is at rest in the other specifications
fvars == <<handles, kernel>>

pvars == <<pstream, pspec, pfed, parser, preq, pret, pcalls, fvars>>

-----------------------------------------------------------------------------
(* Bytes and std::string helpers *)

CR == "\r"
LF == "\n"
CRLF == <<CR, LF>>
CRLFCRLF == <<CR, LF, CR, LF>>
NPOS == -1

Min(a, b) == IF a < b THEN a ELSE b

\* s.substr(pos, n): clamped to the end of s
SubStr(s, pos, n) == SubSeq(s, pos + 1, Min(pos + n, Len(s)))

\* s.substr(pos)
SubStrFrom(s, pos) == SubSeq(s, pos + 1, Len(s))

MatchAt(s, pat, i) ==
  /\ i + Len(pat) <= Len(s)
  /\ \A k \in 1..Len(pat) : s[i + k] = pat[k]

\* s.find(pat, from): offset of the first occurrence at or after from
Find(s, pat, from) ==
  LET cand == {i \in from..(Len(s) - Len(pat)) : MatchAt(s, pat, i)}
  IN IF cand = {} THEN NPOS
     ELSE CHOOSE i \in cand : \A j \in cand : i <= j

IsWs(c) == c \in {" ", "\t", CR, LF}

trim(s) ==
  LET nonws == {i \in 1..Len(s) : ~IsWs(s[i])}
  IN IF nonws = {} THEN <<>>
     ELSE SubSeq(s, CHOOSE i \in nonws : \A j \in nonws : i <= j,
                    CHOOSE i \in nonws : \A j \in nonws : j <= i)

Digits == <<"0", "1", "2", "3", "4", "5", "6", "7", "8", "9">>
IsDigit(c) == \E d \in 1..10 : Digits[d] = c
DigitVal(c) == (CHOOSE d \in 1..10 : Digits[d] = c) - 1

RECURSIVE AtoiFrom(_, _, _)
AtoiFrom(s, i, acc) ==
  IF i <= Len(s) /\ IsDigit(s[i])
  THEN AtoiFrom(s, i + 1, acc * 10 + DigitVal(s[i]))
  ELSE acc

\* std::atoi on an unsigned decimal: leading white space, then digits
atoi(s) ==
  LET nonws == {i \in 1..Len(s) : ~IsWs(s[i])}
  IN IF nonws = {} THEN 0
     ELSE AtoiFrom(s, CHOOSE i \in nonws : \A j \in nonws : i <= j, 0)

LowerHex == <<"a", "b", "c", "d", "e", "f">>
UpperHex == <<"A", "B", "C", "D", "E", "F">>
IsHex(c) ==
  \/ IsDigit(c)
  \/ \E d \in 1..6 : LowerHex[d] = c \/ UpperHex[d] = c
HexDigitVal(c) ==
  IF IsDigit(c) THEN DigitVal(c)
  ELSE 9 + (CHOOSE d \in 1..6 : LowerHex[d] = c \/ UpperHex[d] = c)

RECURSIVE HexValue(_, _, _)
HexValue(s, i, acc) ==
  IF i <= Len(s) THEN HexValue(s, i + 1, acc * 16 + HexDigitVal(s[i]))
  ELSE acc

-----------------------------------------------------------------------------
(* HttpRequestParser *)

kStateRequestLine == "kStateRequestLine"
kStateHeaders == "kStateHeaders"
kStateBody == "kStateBody"
kStateDone == "kStateDone"
kStateError == "kStateError"

kChunkSize == "kChunkSize"
kChunkData == "kChunkData"
kChunkCrlf == "kChunkCrlf"
kChunkTrailer == "kChunkTrailer"
kChunkDone == "kChunkDone"

MaxHeaderBytes == 8192

ContentLengthName ==
  <<"C", "o", "n", "t", "e", "n", "t", "-", "L", "e", "n", "g", "t", "h">>
TransferEncodingName ==
  <<"T", "r", "a", "n", "s", "f", "e", "r", "-",
    "E", "n", "c", "o", "d", "i", "n", "g">>
ChunkedValue == <<"c", "h", "u", "n", "k", "e", "d">>

\* HttpRequestParser::HttpRequestParser and HttpRequestParser::Reset
NewParser ==
  [m_state |-> kStateRequestLine, m_contentLength |-> 0, m_consumed |-> 0,
   m_chunked |-> FALSE, m_headerEndOffset |-> 0, m_chunkState |-> kChunkSize,
   m_currentChunkSize |-> 0, m_currentChunkRead |-> 0]

\* HttpRequest::HttpRequest
NewRequest ==
  [method |-> <<>>, uri |-> <<>>, version |-> <<>>, headers |-> <<>>,
   body |-> <<>>, complete |-> FALSE]

\* the name comparison that recognises the Content-Length header
IsContentLength(name) == name = ContentLengthName

\* the comparison that recognises Transfer-Encoding: chunked
IsChunkedHeader(name, value) ==
  name = TransferEncodingName /\ value = ChunkedValue

\* Parse, the request line.  acc = [p, req, failed]; eol is where it ends.
RequestLine(acc, line, eol, m1, m2) ==
  IF m1 = NPOS \/ m2 = NPOS
  THEN [acc EXCEPT !.p.m_state = kStateError, !.p.m_consumed = eol,
                   !.failed = TRUE]
  ELSE [acc EXCEPT !.req.method = SubStr(line, 0, m1),
                   !.req.uri = SubStr(line, m1 + 1, m2 - m1 - 1),
                   !.req.version = SubStrFrom(line, m2 + 1)]

SecondSpace(line, m1) ==
  IF m1 = NPOS THEN NPOS ELSE Find(line, <<" ">>, m1 + 1)

FirstLine(acc, line, eol, m1) ==
  RequestLine(acc, line, eol, m1, SecondSpace(line, m1))

\* Parse, one header line with its name and value trimmed
HeaderField(acc, name, value) ==
  [acc EXCEPT
     !.p.m_contentLength = IF IsContentLength(name) THEN atoi(value) ELSE @,
     !.p.m_chunked = IF IsChunkedHeader(name, value) THEN TRUE ELSE @,
     !.req.headers = Append(@, [name |-> name, value |-> value])]

HeaderLine(acc, line, colon) ==
  IF colon = NPOS THEN acc
  ELSE HeaderField(acc, trim(SubStr(line, 0, colon)),
                   trim(SubStrFrom(line, colon + 1)))

\* what one line of the header block does to acc
ParseLine(acc, line, eol, first) ==
  IF first THEN FirstLine(acc, line, eol, Find(line, <<" ">>, 0))
  ELSE HeaderLine(acc, line, Find(line, <<":">>, 0))

\* The loop over the lines of the header block.  acc = [p, req, failed].
RECURSIVE HeaderLoop(_, _, _, _)
HeaderNext(hp, eol, acc) ==
  IF acc.failed THEN acc ELSE HeaderLoop(hp, eol + 2, FALSE, acc)

HeaderAt(hp, pos, eol, first, acc) ==
  HeaderNext(hp, eol, ParseLine(acc, SubStr(hp, pos, eol - pos), eol, first))

LineEnd(hp, eol0) == IF eol0 = NPOS THEN Len(hp) ELSE eol0

HeaderLoop(hp, pos, first, acc) ==
  IF ~(pos < Len(hp)) THEN acc
  ELSE HeaderAt(hp, pos, LineEnd(hp, Find(hp, CRLF, pos)), first, acc)

HeadersParsed(acc, hdrEnd) ==
  IF acc.failed THEN [p |-> acc.p, req |-> acc.req, returned |-> TRUE]
  ELSE [p |-> [acc.p EXCEPT !.m_state = kStateBody,
                            !.m_headerEndOffset = hdrEnd + 4],
        req |-> acc.req, returned |-> FALSE]

\* Parse, request line and headers.  returned = Parse returned false here.
ParseHeaders(data, p, req, hdrEnd) ==
  IF hdrEnd = NPOS THEN [p |-> p, req |-> req, returned |-> TRUE]
  ELSE IF hdrEnd > MaxHeaderBytes
  THEN [p |-> [p EXCEPT !.m_state = kStateError, !.m_consumed = hdrEnd],
        req |-> req, returned |-> TRUE]
  ELSE HeadersParsed(HeaderLoop(SubStr(data, 0, hdrEnd), 0, TRUE,
                                [p |-> p, req |-> req, failed |-> FALSE]),
                     hdrEnd)

\* The while loop of the chunked decoder.  s = [pos, p, req, returned].
RECURSIVE ChunkLoop(_, _)
\* kChunkSize: the size line that ends at lineEnd, with its value
ChunkSizeLine(data, s, lineEnd, val) ==
  ChunkLoop(data,
    [s EXCEPT !.pos = lineEnd + 2,
              !.p.m_currentChunkSize = val,
              !.p.m_currentChunkRead = 0,
              !.p.m_consumed = lineEnd + 2,
              !.p.m_chunkState = IF val = 0 THEN kChunkTrailer ELSE kChunkData])

ChunkSizeText(data, s, lineEnd, sz) ==
  IF \E i \in 1..Len(sz) : ~IsHex(sz[i])
  THEN [s EXCEPT !.p.m_state = kStateError, !.returned = TRUE]
  ELSE ChunkSizeLine(data, s, lineEnd, HexValue(sz, 1, 0))

ChunkSizeAt(data, s, lineEnd) ==
  IF lineEnd = NPOS THEN s
  ELSE ChunkSizeText(data, s, lineEnd, SubStr(data, s.pos, lineEnd - s.pos))

\* kChunkData, after take bytes were appended to the body: q is the new p
ChunkDataEnd(data, s2, q) ==
  IF s2.p.m_currentChunkRead = s2.p.m_currentChunkSize THEN
    IF q + 1 >= Len(data) THEN s2
    ELSE IF data[q + 1] = CR /\ data[q + 2] = LF
    THEN ChunkLoop(data, [s2 EXCEPT !.pos = q + 2,
                                    !.p.m_consumed = q + 2,
                                    !.p.m_chunkState = kChunkSize])
    ELSE [s2 EXCEPT !.p.m_state = kStateError, !.returned = TRUE]
  ELSE s2

ChunkTake(data, s, take) ==
  ChunkDataEnd(data,
               [s EXCEPT !.req.body = @ \o SubStr(data, s.pos, take),
                         !.pos = s.pos + take,
                         !.p.m_currentChunkRead = @ + take,
                         !.p.m_consumed = s.pos + take],
               s.pos + take)

ChunkLoop(data, s) ==
  IF ~(/\ s.pos < Len(data)
       /\ s.p.m_chunkState # kChunkDone
       /\ s.p.m_chunkState # kChunkTrailer) THEN s
  ELSE IF s.p.m_chunkState = kChunkSize
  THEN ChunkSizeAt(data, s, Find(data, CRLF, s.pos))
  ELSE IF s.p.m_chunkState = kChunkData
  THEN ChunkTake(data, s,
                 Min(Len(data) - s.pos,
                     s.p.m_currentChunkSize - s.p.m_currentChunkRead))
  ELSE s

\* Parse, "Expect final CRLF" and the return that follows
ChunkTrailer(data, s) ==
  IF s.p.m_chunkState = kChunkTrailer /\ Len(data) >= s.pos + 2
  THEN IF data[s.pos + 1] = CR /\ data[s.pos + 2] = LF
       THEN [s EXCEPT !.pos = s.pos + 2,
                      !.p.m_consumed = s.pos + 2,
                      !.p.m_chunkState = kChunkDone,
                      !.p.m_state = kStateDone,
                      !.req.complete = TRUE]
       ELSE [s EXCEPT !.p.m_state = kStateError]
  ELSE s

ChunkedResult(t) ==
  [p |-> t.p, req |-> t.req,
   ret |-> IF t.p.m_chunkState = kChunkDone THEN TRUE ELSE t.req.complete]

ChunkedEnd(data, s) ==
  IF s.returned THEN [p |-> s.p, req |-> s.req, ret |-> FALSE]
  ELSE ChunkedResult(ChunkTrailer(data, s))

\* ParseChunked with a decoder that starts over at the end of the header
\* block in every call
ParseChunkedFromStart(data, p, req) ==
  ChunkedEnd(
    data,
    ChunkLoop(data,
              [pos |-> p.m_headerEndOffset,
               p |-> IF p.m_consumed < p.m_headerEndOffset
                     THEN [p EXCEPT !.m_consumed = p.m_headerEndOffset] ELSE p,
               req |-> req, returned |-> FALSE]))

\* Parse, body with Transfer-Encoding: chunked
ParseChunked(data, p, req) ==
  ChunkedEnd(
    data,
    ChunkLoop(data,
              [pos |-> p.m_headerEndOffset +
                       (IF p.m_consumed # 0
                        THEN p.m_consumed - p.m_headerEndOffset ELSE 0),
               p |-> IF p.m_consumed < p.m_headerEndOffset
                     THEN [p EXCEPT !.m_consumed = p.m_headerEndOffset] ELSE p,
               req |-> req, returned |-> FALSE]))

\* Parse, body of fixed Content-Length
ParseFixed(data, p, req) ==
  LET bodyStart == p.m_headerEndOffset
      have == Len(data) - bodyStart
  IN IF have >= p.m_contentLength
     THEN [p |-> [p EXCEPT !.m_consumed = bodyStart + p.m_contentLength,
                           !.m_state = kStateDone],
           req |-> [req EXCEPT !.body = SubStr(data, bodyStart,
                                               p.m_contentLength),
                               !.complete = TRUE],
           ret |-> TRUE]
     ELSE [p |-> p, req |-> req, ret |-> req.complete]

\* Parse, from "if (m_state == kStateBody)" to the final return
ParseBody(data, h) ==
  IF h.returned THEN [p |-> h.p, req |-> h.req, ret |-> FALSE]
  ELSE IF h.p.m_state = kStateBody
  THEN IF h.p.m_chunked THEN ParseChunked(data, h.p, h.req)
       ELSE ParseFixed(data, h.p, h.req)
  ELSE [p |-> h.p, req |-> h.req, ret |-> h.req.complete]

\* HttpRequestParser::Parse(data, req): the new members, request and result
Parse(data, p, req) ==
  IF p.m_state = kStateDone \/ p.m_state = kStateError
  THEN [p |-> p, req |-> req, ret |-> req.complete]
  ELSE ParseBody(data,
                 IF p.m_state = kStateRequestLine \/ p.m_state = kStateHeaders
                 THEN ParseHeaders(data, p, req, Find(data, CRLFCRLF, 0))
                 ELSE [p |-> p, req |-> req, returned |-> FALSE])

\* HttpRequestParser::Consumed and HttpRequestParser::Error
Consumed(p) == p.m_consumed
Error(p) == p.m_state = kStateError

-----------------------------------------------------------------------------
(* Requests offered to the parser: a request line, the framing header and   *)
(* the body, built from the payload.                                        *)

MaxChunks == 2
MaxTail == 1
MaxCalls == 3

GetLine == <<"G", "E", "T", " ", "/", " ", "H", "T", "T", "P", "/", "1", ".", "1", CR, LF>>
PostLine == <<"P", "O", "S", "T", " ", "/", "u", " ", "H", "T", "T", "P", "/", "1", ".", "1", CR, LF>>
HostLine == <<"H", "o", "s", "t", ":", " ", "h", CR, LF>>
LowerContentLengthName ==
  <<"c", "o", "n", "t", "e", "n", "t", "-", "l", "e", "n", "g", "t", "h">>
TenBytes == <<"0", "1", "2", "3", "4", "5", "6", "7", "8", "9">>

\* payloads of a chunk or of a fixed-length body; one holds CR LF CR LF
Payloads == {<<"W", "i">>, <<CR, LF, CR, LF>>, TenBytes}

RECURSIVE SeqsUpTo(_, _)
SeqsUpTo(S, n) ==
  IF n = 0 THEN {<<>>}
  ELSE LET shorter == SeqsUpTo(S, n - 1)
       IN shorter \cup {Append(q, x) : q \in shorter, x \in S}

RECURSIVE Concat(_)
Concat(chunks) ==
  IF chunks = <<>> THEN <<>> ELSE Head(chunks) \o Concat(Tail(chunks))

\* decimal text of a natural number (sprintf %lu, %d) and hexadecimal text
\* of a number below 256
RECURSIVE Dec(_)
Dec(n) == IF n < 10 THEN <<Digits[n + 1]>>
          ELSE Append(Dec(n \div 10), Digits[(n % 10) + 1])
HexDigit(d, upper) ==
  IF d < 10 THEN Digits[d + 1]
  ELSE IF upper THEN UpperHex[d - 9] ELSE LowerHex[d - 9]
ToHex(n, upper) ==
  IF n < 16 THEN <<HexDigit(n, upper)>>
  ELSE <<HexDigit(n \div 16, upper), HexDigit(n % 16, upper)>>

RECURSIVE EncodeChunks(_, _)
EncodeChunks(chunks, upper) ==
  IF chunks = <<>> THEN <<"0">> \o CRLF \o CRLF
  ELSE ToHex(Len(Head(chunks)), upper) \o CRLF \o Head(chunks) \o CRLF
       \o EncodeChunks(Tail(chunks), upper)

\* malformed inputs: no space in the request line, a size line that is not
\* hexadecimal, chunk data not followed by CR LF, a trailer that is not CR LF
ChunkedHead ==
  PostLine \o TransferEncodingName \o <<":", " ">> \o ChunkedValue \o CRLF \o CRLF
Malformed ==
  {<<"G", "E", "T">> \o CRLF \o HostLine \o CRLF,
   ChunkedHead \o <<"z", CR, LF, "a", CR, LF>>,
   ChunkedHead \o <<"1", CR, LF, "a", "X", "Y", "Z">>,
   ChunkedHead \o <<"1", CR, LF, "a", CR, LF, "0", CR, LF, "X", "Y">>}

RequestSpecs ==
  {[kind |-> "none", name |-> <<>>, body |-> <<>>, chunks |-> <<>>,
    upper |-> FALSE, raw |-> <<>>]}
  \cup {[kind |-> "fixed", name |-> n, body |-> b, chunks |-> <<>>,
         upper |-> FALSE, raw |-> <<>>] :
           n \in {ContentLengthName, LowerContentLengthName},
           b \in Payloads \cup {<<>>}}
  \cup {[kind |-> "chunked", name |-> TransferEncodingName, body |-> Concat(c),
         chunks |-> c, upper |-> u, raw |-> <<>>] :
           c \in SeqsUpTo(Payloads, MaxChunks), u \in BOOLEAN}
  \cup {[kind |-> "raw", name |-> <<>>, body |-> <<>>, chunks |-> <<>>,
         upper |-> FALSE, raw |-> r] : r \in Malformed}

\* the bytes of the request a specification describes
Encode(sp) ==
  CASE sp.kind = "none" -> GetLine \o HostLine \o CRLF
    [] sp.kind = "fixed" ->
         PostLine \o sp.name \o <<":", " ">> \o Dec(Len(sp.body)) \o CRLF
         \o CRLF \o sp.body
    [] sp.kind = "chunked" -> ChunkedHead \o EncodeChunks(sp.chunks, sp.upper)
    [] OTHER -> sp.raw

\* bytes of a following request that may already be in the buffer
Tails == {SubSeq(GetLine, 1, n) : n \in 0..MaxTail}

\* the request is well formed and its framing header has the spelling of
\* the parser's comparisons
Canonical(sp) ==
  sp.kind \in {"none", "chunked"} \/ (sp.kind = "fixed" /\ sp.name = ContentLengthName)
WellFormed(sp) == sp.kind # "raw"

\* the length of the request at the head of pstream
RequestLen == Len(Encode(pspec))

\* the result of feeding the request in a single call
OneShot == Parse(Encode(pspec), NewParser, NewRequest)

-----------------------------------------------------------------------------
(* The connection engine.                                                   *)
(*                                                                          *)
(* Time is the coarse clock std::time(0) * 1000 in units of one second; the *)
(* time budgets of the configuration are in the same unit.  poll is taken   *)
(* to report, on the pollfd entry of a connection, the readiness of that    *)
(* connection's socket.  A response in the outbound buffer is a sequence of *)
(* tokens (status line, header block, body); send accepts whole tokens.     *)

VARIABLES
  now,              \* std::time(0), in seconds
  m_config,         \* Config: the sequence of ServerConfig
  m_listenSockets,  \* descriptors of the listening sockets, one per server
  m_clients,        \* std::map<int, ClientConnection>
  m_cgiFdToClient,  \* std::map<int, int>: CGI pipe fd -> client fd
  m_pfds,           \* the poll set; after poll, its entries with revents
  pc,               \* position in the loop of main: poll, blocked, sweep, dispatch
  pollUntil,        \* the time at which the poll in progress times out
  fdt,              \* the open descriptors of the process and what each is
  socks,            \* the client connections as the kernel and the peers see them
  procs,            \* the CGI child processes that exist (running or zombie)
  fs,               \* the file system under the route roots
  uploadCounter     \* the two static unsigned long uploadCounter of HandleReadable

svars == <<now, m_config, m_listenSockets, m_clients, m_cgiFdToClient, m_pfds,
           pc, pollUntil, fdt, socks, procs, fs, uploadCounter, fvars>>

vars == <<pvars, svars>>

MaxTime == 4
MaxFd == 11
MaxClients == 1
MaxChildren == 2
MaxSend == 3
MaxWire == 6
RecvBufSize == 4096
\* the timeout main passes to PollOnce: 1000 ms
MainPollTimeout == 1

Put(f, k, v) == [x \in (DOMAIN f) \cup {k} |-> IF x = k THEN v ELSE f[x]]
Del(f, k) == [x \in (DOMAIN f) \ {k} |-> f[x]]
Empty == [x \in {} |-> 0]

\* no FD object of the harness exists and no descriptor of its is open
FdIdle ==
  /\ handles = Empty
  /\ kernel = [open |-> {}, fresh |-> {}, released |-> {}, badCloses |-> 0]

RECURSIVE SetToSeq(_)
\* the elements of a finite set of integers in increasing order
SetToSeq(S) ==
  IF S = {} THEN <<>>
  ELSE LET m == CHOOSE x \in S : \A y \in S : x <= y
       IN <<m>> \o SetToSeq(S \ {m})

(* Bytes of the names the server compares *)
UpperAlpha == <<"A", "B", "C", "D", "E", "F", "G", "H", "I", "J", "K", "L", "M",
                "N", "O", "P", "Q", "R", "S", "T", "U", "V", "W", "X", "Y", "Z">>
LowerAlpha == <<"a", "b", "c", "d", "e", "f", "g", "h", "i", "j", "k", "l", "m",
                "n", "o", "p", "q", "r", "s", "t", "u", "v", "w", "x", "y", "z">>
\* std::tolower on one byte
tolower(c) ==
  IF \E i \in 1..26 : UpperAlpha[i] = c
  THEN LowerAlpha[CHOOSE i \in 1..26 : UpperAlpha[i] = c]
  ELSE c
Lower(s) == [i \in 1..Len(s) |-> tolower(s[i])]

sGET == <<"G", "E", "T">>
sHEAD == <<"H", "E", "A", "D">>
sPOST == <<"P", "O", "S", "T">>
sDELETE == <<"D", "E", "L", "E", "T", "E">>
sHTTP11 == <<"H", "T", "T", "P", "/", "1", ".", "1">>
sConnection == <<"C", "o", "n", "n", "e", "c", "t", "i", "o", "n">>
sContentType == <<"C", "o", "n", "t", "e", "n", "t", "-", "T", "y", "p", "e">>
sContentLength == <<"C", "o", "n", "t", "e", "n", "t", "-", "L", "e", "n", "g", "t", "h">>
sLocation == <<"L", "o", "c", "a", "t", "i", "o", "n">>
sStatus == <<"s", "t", "a", "t", "u", "s">>
sHost == <<"h", "o", "s", "t">>
sKeepAlive == <<"k", "e", "e", "p", "-", "a", "l", "i", "v", "e">>
sKeepAliveCap == <<"K", "e", "e", "p", "-", "A", "l", "i", "v", "e">>
sClose == <<"c", "l", "o", "s", "e">>
sCloseCap == <<"C", "l", "o", "s", "e">>
sTextPlain == <<"t", "e", "x", "t", "/", "p", "l", "a", "i", "n">>
sTextHtml == <<"t", "e", "x", "t", "/", "h", "t", "m", "l">>
sDotDot == <<".", ".">>
sSlash == <<"/">>

-----------------------------------------------------------------------------
(* Configuration and file system *)

\* RouteConfig
Route(path, root, index, redirect, cgiExtension, uploadsEnabled, listing) ==
  [path |-> path, root |-> root, methods |-> <<>>, redirect |-> redirect,
   index |-> index, directoryListing |-> listing,
   uploadsEnabled |-> uploadsEnabled, uploadPath |-> <<>>,
   cgiExtension |-> cgiExtension, cgiInterpreter |-> <<>>]

Routes ==
  <<Route(<<"/">>, <<"/", "w">>, <<"i">>, <<>>, <<".", "c">>, FALSE, FALSE),
    Route(<<"/", "r">>, <<"/", "w">>, <<>>, <<"/">>, <<>>, FALSE, FALSE)>>

\* ServerConfig; the budgets are in seconds, 0 switches a budget off
ServerConfig(name, header, body, idle, cgi) ==
  [serverNames |-> <<name>>, errorPageRoot |-> <<>>, clientMaxBodySize |-> 16,
   headerTimeoutMs |-> header, bodyTimeoutMs |-> body, idleTimeoutMs |-> idle,
   cgiTimeoutMs |-> cgi, routes |-> Routes]

\* the configuration the server is run with: two virtual hosts, a with the
\* CGI budget above the body budget and b with the body budget above it
TheConfig ==
  <<ServerConfig(<<"a">>, 1, 1, 1, 2), ServerConfig(<<"b">>, 1, 3, 1, 1)>>

File(data) == [kind |-> "file", data |-> data]
Dir == [kind |-> "dir", data |-> <<>>]

InitFs ==
  [p \in {<<"/", "w">>, <<"/", "w", "/", "i">>, <<"/", "w", "/", "x", ".", "c">>} |->
     IF p = <<"/", "w">> THEN Dir
     ELSE IF p = <<"/", "w", "/", "i">> THEN File(<<"h", "i", LF>>) ELSE File(<<"#", "!">>)]

\* isDir and readFile of Server.cpp on the modelled file system
isDir(f, path) == path \in DOMAIN f /\ f[path].kind = "dir"
CanReadFile(f, path) == path \in DOMAIN f /\ f[path].kind = "file"

-----------------------------------------------------------------------------
(* Responses *)

StatusTok(code, reason) ==
  [tok |-> "status", code |-> code, reason |-> reason, headers |-> <<>>,
   bytes |-> <<>>]
HeadersTok(h) ==
  [tok |-> "headers", code |-> 0, reason |-> <<>>, headers |-> h,
   bytes |-> <<>>]
BodyTok(b) ==
  [tok |-> "body", code |-> 0, reason |-> <<>>, headers |-> <<>>, bytes |-> b]
Hdr(name, value) == [name |-> name, value |-> value]
ConnectionValue(keepAlive) == IF keepAlive THEN sKeepAlive ELSE sClose

\* buildResponse
buildResponse(code, reason, body, ctype, keepAlive, headOnly) ==
  <<StatusTok(code, reason),
    HeadersTok(<<Hdr(sContentLength, Dec(Len(body))), Hdr(sContentType, ctype),
                 Hdr(sConnection, ConnectionValue(keepAlive))>>)>>
  \o (IF headOnly \/ body = <<>> THEN <<>> ELSE <<BodyTok(body)>>)

RedirectBody(reason, location) ==
  <<"<", "h", "t", "m", "l", ">", "<", "b", "o", "d", "y", ">", "<", "h", "1", ">">> \o reason \o <<"<", "/", "h", "1", ">", "<", "a", " ", "h", "r", "e", "f", "=", "'">> \o location \o <<"'", ">">>
  \o location \o <<"<", "/", "a", ">", "<", "/", "b", "o", "d", "y", ">", "<", "/", "h", "t", "m", "l", ">">>

\* buildRedirect
buildRedirect(code, reason, location, keepAlive) ==
  <<StatusTok(code, reason),
    HeadersTok(<<Hdr(sLocation, location),
                 Hdr(sContentLength, Dec(Len(RedirectBody(reason, location)))),
                 Hdr(sContentType, sTextHtml),
                 Hdr(sConnection, ConnectionValue(keepAlive))>>),
    BodyTok(RedirectBody(reason, location))>>

\* loadErrorPageBody
loadErrorPageBody(f, sc, code, fallback) ==
  IF sc.errorPageRoot = <<>> THEN fallback
  ELSE
    LET root == sc.errorPageRoot
        path == (IF root[Len(root)] # "/" THEN root \o sSlash ELSE root)
                \o Dec(code) \o <<".", "h", "t", "m", "l">>
    IN IF CanReadFile(f, path) /\ f[path].data # <<>> THEN f[path].data
       ELSE fallback

body400 == <<"4", "0", "0", " ", "B", "a", "d", " ", "R", "e", "q", "u", "e", "s", "t", LF>>
body403 == <<"4", "0", "3", " ", "F", "o", "r", "b", "i", "d", "d", "e", "n", LF>>
body404 == <<"4", "0", "4", " ", "N", "o", "t", " ", "F", "o", "u", "n", "d", LF>>
body405 == <<"4", "0", "5", " ", "M", "e", "t", "h", "o", "d", " ", "N", "o", "t", " ", "A", "l", "l", "o", "w", "e", "d", LF>>
body408 == <<"4", "0", "8", " ", "R", "e", "q", "u", "e", "s", "t", " ", "T", "i", "m", "e", "o", "u", "t", LF>>
body413 == <<"4", "1", "3", " ", "P", "a", "y", "l", "o", "a", "d", " ", "T", "o", "o", " ", "L", "a", "r", "g", "e", LF>>
body500 == <<"5", "0", "0", " ", "I", "n", "t", "e", "r", "n", "a", "l", " ", "S", "e", "r", "v", "e", "r", " ", "E", "r", "r", "o", "r", LF>>
body501 == <<"5", "0", "1", " ", "N", "o", "t", " ", "I", "m", "p", "l", "e", "m", "e", "n", "t", "e", "d", LF>>
body504 == <<"5", "0", "4", " ", "G", "a", "t", "e", "w", "a", "y", " ", "T", "i", "m", "e", "o", "u", "t", " ", "(", "C", "G", "I", ")", LF>>
bodyCgiFailed == <<"C", "G", "I", " ", "E", "x", "e", "c", "u", "t", "i", "o", "n", " ", "F", "a", "i", "l", "e", "d", LF>>

rOK == <<"O", "K">>
rFound == <<"F", "o", "u", "n", "d">>
rNoContent == <<"N", "o", " ", "C", "o", "n", "t", "e", "n", "t">>
rBadRequest == <<"B", "a", "d", " ", "R", "e", "q", "u", "e", "s", "t">>
rForbidden == <<"F", "o", "r", "b", "i", "d", "d", "e", "n">>
rNotFound == <<"N", "o", "t", " ", "F", "o", "u", "n", "d">>
rMethodNotAllowed == <<"M", "e", "t", "h", "o", "d", " ", "N", "o", "t", " ", "A", "l", "l", "o", "w", "e", "d">>
rRequestTimeout == <<"R", "e", "q", "u", "e", "s", "t", " ", "T", "i", "m", "e", "o", "u", "t">>
rPayloadTooLarge == <<"P", "a", "y", "l", "o", "a", "d", " ", "T", "o", "o", " ", "L", "a", "r", "g", "e">>
rInternalServerError == <<"I", "n", "t", "e", "r", "n", "a", "l", " ", "S", "e", "r", "v", "e", "r", " ", "E", "r", "r", "o", "r">>
rNotImplemented == <<"N", "o", "t", " ", "I", "m", "p", "l", "e", "m", "e", "n", "t", "e", "d">>
rGatewayTimeout == <<"G", "a", "t", "e", "w", "a", "y", " ", "T", "i", "m", "e", "o", "u", "t">>

-----------------------------------------------------------------------------
(* Connections, descriptors and processes *)

kPhaseAccepted == "kPhaseAccepted"
kPhaseHeaders == "kPhaseHeaders"
kPhaseBody == "kPhaseBody"
kPhaseHandle == "kPhaseHandle"
kPhaseRespond == "kPhaseRespond"
kPhaseIdle == "kPhaseIdle"
kPhaseClosing == "kPhaseClosing"

POLLIN == "POLLIN"
POLLOUT == "POLLOUT"
POLLERR == "POLLERR"
POLLHUP == "POLLHUP"

\* ClientConnection::ClientConnection
NewConnection ==
  [m_fd |-> -1, m_readBuf |-> <<>>, m_writeBuf |-> <<>>, m_wantWrite |-> FALSE,
   m_request |-> NewRequest, m_parser |-> NewParser, m_keepAlive |-> FALSE,
   m_createdAtMs |-> 0, m_lastActivityMs |-> 0, m_headersComplete |-> FALSE,
   m_bodyComplete |-> FALSE, m_timedOut |-> FALSE, m_phase |-> kPhaseAccepted,
   m_cgiInFd |-> -1, m_cgiOutFd |-> -1, m_cgiPid |-> -1, m_cgiActive |-> FALSE,
   m_cgiHeadersDone |-> FALSE, m_cgiBuffer |-> <<>>, m_cgiBodyStart |-> 0,
   m_cgiWriteOffset |-> 0, m_cgiStartMs |-> 0, m_serverIndex |-> 0]

\* The state the handlers work on, as one value.
World ==
  [m_clients |-> m_clients, m_cgiFdToClient |-> m_cgiFdToClient, fdt |-> fdt,
   socks |-> socks, procs |-> procs, fs |-> fs, uploadCounter |-> uploadCounter]

Commit(w) ==
  /\ m_clients' = w.m_clients
  /\ m_cgiFdToClient' = w.m_cgiFdToClient
  /\ fdt' = w.fdt
  /\ socks' = w.socks
  /\ procs' = w.procs
  /\ fs' = w.fs
  /\ uploadCounter' = w.uploadCounter

\* descriptor numbers: the kernel hands out the lowest free one
FreeFds(t) == (0..MaxFd) \ DOMAIN t
LowestFree(t) == CHOOSE f \in FreeFds(t) : \A g \in FreeFds(t) : f <= g

Stdio == [kind |-> "stdio", ref |-> 0]
ListenEnd(i) == [kind |-> "listen", ref |-> i]
SockEnd(id) == [kind |-> "sock", ref |-> id]
StdinEnd(pid) == [kind |-> "stdin", ref |-> pid]
StdoutEnd(pid) == [kind |-> "stdout", ref |-> pid]

\* the client connection a descriptor is a socket of, 0 if it is none
SockOf(w, fd) ==
  IF fd \in DOMAIN w.fdt /\ w.fdt[fd].kind = "sock" THEN w.fdt[fd].ref ELSE 0

\* ::close(fd): the last descriptor of a socket or pipe end closes it
close(w, fd) ==
  IF fd \notin DOMAIN w.fdt THEN w
  ELSE
    LET e == w.fdt[fd]
        t2 == Del(w.fdt, fd)
        last == \A f \in DOMAIN t2 : t2[f] # e
    IN [w EXCEPT
          !.fdt = t2,
          !.socks = IF e.kind = "sock" /\ last
                    THEN [@ EXCEPT ![e.ref].state = "closed"] ELSE @,
          !.procs = IF e.kind = "stdin" /\ last
                    THEN [@ EXCEPT ![e.ref].stdinOpen = FALSE]
                    ELSE IF e.kind = "stdout" /\ last
                    THEN [@ EXCEPT ![e.ref].stdoutRead = FALSE] ELSE @]

\* FD::operator= inside m_clients[key] = conn: the handle stored under key
\* closes what it held and takes a dup of conn's descriptor
AssignConnection(w, key, conn) ==
  LET old == IF key \in DOMAIN w.m_clients THEN w.m_clients[key].m_fd ELSE -1
      w1 == IF old >= 0 THEN close(w, old) ELSE w
      canDup == conn.m_fd \in DOMAIN w1.fdt /\ FreeFds(w1.fdt) # {}
      nfd == IF canDup THEN LowestFree(w1.fdt) ELSE -1
      t2 == IF canDup THEN Put(w1.fdt, nfd, w1.fdt[conn.m_fd]) ELSE w1.fdt
  IN [w1 EXCEPT !.fdt = t2,
                !.m_clients = Put(@, key, [conn EXCEPT !.m_fd = nfd])]

\* Server::AcceptNew: accept until the backlog of listenFd is empty
RECURSIVE AcceptNew(_, _, _)
AcceptNew(w, listenFd, t) ==
  LET pending == {i \in DOMAIN w.socks :
                    /\ w.socks[i].state = "backlog"
                    /\ w.socks[i].port = w.fdt[listenFd].ref}
  IN IF pending = {} \/ FreeFds(w.fdt) = {} THEN w
     ELSE
       LET i == CHOOSE x \in pending : \A y \in pending : x <= y
           cfd == LowestFree(w.fdt)
           w1 == [w EXCEPT !.fdt = Put(@, cfd, SockEnd(i)),
                           !.socks[i].state = "established"]
           conn == [NewConnection EXCEPT !.m_fd = cfd,
                                         !.m_createdAtMs = t,
                                         !.m_lastActivityMs = t]
           w2 == AssignConnection(w1, cfd, conn)
       IN AcceptNew(close(w2, cfd), listenFd, t)

\* Server::CloseConnection: erase the entry; its FD handle closes m_fd
CloseConnection(w, fd) ==
  IF fd \in DOMAIN w.m_clients
  THEN LET held == w.m_clients[fd].m_fd
           w1 == [w EXCEPT !.m_clients = Del(@, fd)]
       IN IF held >= 0 THEN close(w1, held) ELSE w1
  ELSE w

\* the tokens a socket still accepts: the peer stops reading after MaxWire
Room(s) == MaxWire - Len(s.wire)

\* HandleWritable with a reset that empties the inbound buffer
HandleWritableClearing(w, key, n) ==
  LET c == w.m_clients[key]
      sid == SockOf(w, c.m_fd)
      k == IF sid = 0 \/ w.socks[sid].hup THEN 0
           ELSE Min(Min(n, Len(c.m_writeBuf)), Room(w.socks[sid]))
      rest == SubSeq(c.m_writeBuf, k + 1, Len(c.m_writeBuf))
      w1 == IF k = 0 THEN w
            ELSE [w EXCEPT !.m_clients[key].m_writeBuf = rest,
                           !.socks[sid].wire = @ \o SubSeq(c.m_writeBuf, 1, k)]
  IN IF rest # <<>> THEN w1
     ELSE IF ~c.m_keepAlive \/ c.m_phase = kPhaseClosing
     THEN CloseConnection(w1, c.m_fd)
     ELSE [w1 EXCEPT
             !.m_clients[key].m_readBuf = <<>>,
             !.m_clients[key].m_wantWrite = FALSE,
             !.m_clients[key].m_request = NewRequest,
             !.m_clients[key].m_parser = NewParser,
             !.m_clients[key].m_keepAlive = FALSE,
             !.m_clients[key].m_phase = kPhaseIdle]

\* Server::HandleWritable; n is the number of tokens the socket accepts
HandleWritable(w, key, n) ==
  LET c == w.m_clients[key]
      sid == SockOf(w, c.m_fd)
      k == IF sid = 0 \/ w.socks[sid].hup THEN 0
           ELSE Min(Min(n, Len(c.m_writeBuf)), Room(w.socks[sid]))
      rest == SubSeq(c.m_writeBuf, k + 1, Len(c.m_writeBuf))
      w1 == IF k = 0 THEN w
            ELSE [w EXCEPT !.m_clients[key].m_writeBuf = rest,
                           !.socks[sid].wire = @ \o SubSeq(c.m_writeBuf, 1, k)]
      consumed == Consumed(c.m_parser)
  IN IF rest # <<>> THEN w1
     ELSE IF ~c.m_keepAlive \/ c.m_phase = kPhaseClosing
     THEN CloseConnection(w1, c.m_fd)
     ELSE [w1 EXCEPT
             !.m_clients[key].m_readBuf =
                IF consumed # 0 /\ consumed <= Len(c.m_readBuf)
                THEN SubStrFrom(c.m_readBuf, consumed) ELSE <<>>,
             !.m_clients[key].m_wantWrite = FALSE,
             !.m_clients[key].m_request = NewRequest,
             !.m_clients[key].m_parser = NewParser,
             !.m_clients[key].m_keepAlive = FALSE,
             !.m_clients[key].m_phase = kPhaseIdle]

\* ::waitpid(pid, &st, WNOHANG): a child that has exited is reaped
Exited(w, pid) == pid \in DOMAIN w.procs /\ w.procs[pid].state = "zombie"
waitpid(w, pid) ==
  IF Exited(w, pid) THEN [w EXCEPT !.procs[pid].state = "reaped"] ELSE w

\* ::kill(pid, SIGKILL); dead tells whether the child has died by the time
\* the caller goes on
kill(w, pid, dead) ==
  IF pid \in DOMAIN w.procs /\ w.procs[pid].state = "running"
  THEN [w EXCEPT !.procs[pid].state = IF dead THEN "zombie" ELSE "killed"]
  ELSE w

\* Server::ReapCgi
ReapCgi(w, key) ==
  LET c == w.m_clients[key]
      w1 == IF c.m_cgiInFd >= 0
            THEN [close(w, c.m_cgiInFd) EXCEPT
                    !.m_cgiFdToClient = Del(@, c.m_cgiInFd),
                    !.m_clients[key].m_cgiInFd = -1]
            ELSE w
      w2 == IF c.m_cgiOutFd >= 0
            THEN [close(w1, c.m_cgiOutFd) EXCEPT
                    !.m_cgiFdToClient = Del(@, c.m_cgiOutFd),
                    !.m_clients[key].m_cgiOutFd = -1]
            ELSE w1
      w3 == IF c.m_cgiPid > 0 THEN waitpid(w2, c.m_cgiPid) ELSE w2
  IN [w3 EXCEPT !.m_clients[key].m_cgiActive = FALSE]

\* The ServerConfig of a connection once its headers are complete
ServerOf(c) ==
  IF c.m_serverIndex >= 0 /\ c.m_serverIndex < Len(m_config)
  THEN m_config[c.m_serverIndex + 1] ELSE m_config[1]

\* ProcessEvents, "CGI timeout check" for the connection stored under key
SweepCgi(w, key, t, dead) ==
  LET c == w.m_clients[key]
      due ==
        /\ c.m_cgiActive
        /\ c.m_serverIndex >= 0 /\ c.m_serverIndex < Len(m_config)
        /\ m_config[c.m_serverIndex + 1].cgiTimeoutMs > 0
        /\ c.m_cgiStartMs > 0
        /\ t - c.m_cgiStartMs > m_config[c.m_serverIndex + 1].cgiTimeoutMs
  IN IF due
     THEN [ReapCgi(IF c.m_cgiPid > 0 THEN kill(w, c.m_cgiPid, dead) ELSE w,
                   key)
           EXCEPT !.m_clients[key].m_keepAlive = FALSE,
                  !.m_clients[key].m_writeBuf =
                     buildResponse(504, rGatewayTimeout, body504, sTextPlain,
                                   FALSE, FALSE),
                  !.m_clients[key].m_phase = kPhaseRespond,
                  !.m_clients[key].m_wantWrite = TRUE]
     ELSE w

\* ProcessEvents, "timeouts" for the connection stored under key
SweepTimeouts(w, key, t) ==
  LET c == w.m_clients[key]
      scHdr == m_config[1]
      scRef == ServerOf(c)
      closeIt ==
        IF ~c.m_headersComplete
        THEN scHdr.headerTimeoutMs > 0
             /\ t - c.m_createdAtMs > scHdr.headerTimeoutMs
        ELSE IF ~c.m_bodyComplete
        THEN scRef.bodyTimeoutMs > 0
             /\ t - c.m_lastActivityMs > scRef.bodyTimeoutMs
        ELSE /\ c.m_keepAlive /\ scRef.idleTimeoutMs > 0
             /\ t - c.m_lastActivityMs > scRef.idleTimeoutMs
      queue408 == (~c.m_headersComplete \/ ~c.m_bodyComplete)
                  /\ c.m_writeBuf = <<>>
  IN IF ~closeIt THEN w
     ELSE [w EXCEPT
             !.m_clients[key].m_writeBuf =
                IF queue408
                THEN buildResponse(408, rRequestTimeout, body408, sTextPlain,
                                   FALSE, FALSE)
                ELSE @,
             !.m_clients[key].m_wantWrite = IF queue408 THEN TRUE ELSE @,
             !.m_clients[key].m_keepAlive = FALSE,
             !.m_clients[key].m_phase = kPhaseClosing]

\* ProcessEvents, one turn of the sweep loop
SweepOne(w, key, t, dead) == SweepTimeouts(SweepCgi(w, key, t, dead), key, t)

RECURSIVE SweepAll(_, _, _, _)
SweepAll(w, keys, t, dead) ==
  IF keys = <<>> THEN w
  ELSE SweepAll(SweepOne(w, Head(keys), t, dead), Tail(keys), t, dead)

-----------------------------------------------------------------------------
(* Request handling *)

StartsWith(s, pre) == Len(s) >= Len(pre) /\ SubSeq(s, 1, Len(pre)) = pre
EndsWith(s, suf) ==
  Len(s) >= Len(suf) /\ SubSeq(s, Len(s) - Len(suf) + 1, Len(s)) = suf

\* s.rfind(ch)
RFind(s, ch) ==
  LET at == {i \in 0..(Len(s) - 1) : s[i + 1] = ch}
  IN IF at = {} THEN NPOS ELSE CHOOSE i \in at : \A j \in at : j <= i

\* matchRoute with >= for > in the comparison of the lengths: among routes
\* of equal length the last one wins
RECURSIVE MatchRouteLastFrom(_, _, _, _, _)
MatchRouteLastFrom(routes, uri, i, bestLen, best) ==
  IF i > Len(routes) THEN best
  ELSE IF StartsWith(uri, routes[i].path) /\ Len(routes[i].path) >= bestLen
  THEN MatchRouteLastFrom(routes, uri, i + 1, Len(routes[i].path), i)
  ELSE MatchRouteLastFrom(routes, uri, i + 1, bestLen, best)
matchRouteLast(sc, uri) == MatchRouteLastFrom(sc.routes, uri, 1, 0, 0)

\* matchRoute: index into sc.routes of the match, 0 when there is none
RECURSIVE MatchRouteFrom(_, _, _, _, _)
MatchRouteFrom(routes, uri, i, bestLen, best) ==
  IF i > Len(routes) THEN best
  ELSE IF StartsWith(uri, routes[i].path) /\ Len(routes[i].path) > bestLen
  THEN MatchRouteFrom(routes, uri, i + 1, Len(routes[i].path), i)
  ELSE MatchRouteFrom(routes, uri, i + 1, bestLen, best)
matchRoute(sc, uri) == MatchRouteFrom(sc.routes, uri, 1, 0, 0)

\* selectServer: the 0-based index it stores in idxOut
selectServer(cfg, req) ==
  LET hs == {i \in 1..Len(req.headers) : Lower(req.headers[i].name) = sHost}
      host0 == IF hs = {} THEN <<>>
               ELSE req.headers[CHOOSE i \in hs : \A j \in hs : i <= j].value
      colon == RFind(host0, ":")
      host == IF colon # NPOS THEN SubStr(host0, 0, colon) ELSE host0
      hit == {i \in 1..Len(cfg) :
                \E j \in 1..Len(cfg[i].serverNames) :
                   cfg[i].serverNames[j] = host}
  IN IF host0 = <<>> \/ hit = {} THEN 0
     ELSE (CHOOSE i \in hit : \A j \in hit : i <= j) - 1

\* hasHeader: whether a header of that name is present, and its value
hasHeader(req, name) ==
  LET hs == {i \in 1..Len(req.headers) :
               /\ Len(req.headers[i].name) # 0
               /\ Lower(req.headers[i].name) = Lower(name)}
  IN IF hs = {} THEN [found |-> FALSE, value |-> <<>>]
     ELSE [found |-> TRUE,
           value |-> req.headers[CHOOSE i \in hs : \A j \in hs : i <= j].value]

\* the keep-alive decision repeated in the 200/204 branches of HandleReadable
KeepAliveOf(req) ==
  LET keep == hasHeader(req, sConnection)
  IN IF keep.found
     THEN IF keep.value \in {sClose, sCloseCap} THEN FALSE
          ELSE keep.value \in {sKeepAlive, sKeepAliveCap}
     ELSE req.version = sHTTP11

\* guessType
guessType(path) ==
  LET stops == {i \in 1..Len(path) : path[i] \in {".", "/", "\\"}}
      last == IF stops = {} THEN 0
              ELSE CHOOSE i \in stops : \A j \in stops : j <= i
      ext == IF last = 0 \/ path[last] # "." THEN <<>>
             ELSE SubSeq(path, last, Len(path))
  IN IF ext \in {<<".", "h", "t", "m", "l">>, <<".", "h", "t", "m">>} THEN sTextHtml
     ELSE IF ext = <<".", "c", "s", "s">> THEN <<"t", "e", "x", "t", "/", "c", "s", "s">>
     ELSE IF ext = <<".", "j", "s">> THEN <<"a", "p", "p", "l", "i", "c", "a", "t", "i", "o", "n", "/", "j", "a", "v", "a", "s", "c", "r", "i", "p", "t">>
     ELSE IF ext = <<".", "p", "n", "g">> THEN <<"i", "m", "a", "g", "e", "/", "p", "n", "g">>
     ELSE IF ext \in {<<".", "j", "p", "g">>, <<".", "j", "p", "e", "g">>} THEN <<"i", "m", "a", "g", "e", "/", "j", "p", "e", "g">>
     ELSE IF ext = <<".", "g", "i", "f">> THEN <<"i", "m", "a", "g", "e", "/", "g", "i", "f">>
     ELSE sTextPlain

\* the entries readdir yields for path, in the order it yields them
RECURSIVE SeqOfSet(_)
SeqOfSet(S) ==
  IF S = {} THEN <<>>
  ELSE LET x == CHOOSE y \in S : TRUE IN <<x>> \o SeqOfSet(S \ {x})
Entries(f, path) ==
  LET under == IF path[Len(path)] = "/" THEN path ELSE path \o sSlash
  IN SeqOfSet({SubStrFrom(p, Len(under)) :
                 p \in {q \in DOMAIN f :
                          /\ StartsWith(q, under) /\ Len(q) > Len(under)
                          /\ Find(SubStrFrom(q, Len(under)), sSlash, 0) = NPOS}})

RECURSIVE ListItems(_)
ListItems(names) ==
  IF names = <<>> THEN <<>>
  ELSE <<"<", "l", "i", ">", "<", "a", " ", "h", "r", "e", "f", "=", "\"">> \o Head(names) \o <<"\"", ">">> \o Head(names)
       \o <<"<", "/", "a", ">", "<", "/", "l", "i", ">">> \o ListItems(Tail(names))

\* listDir
listDir(f, path) ==
  <<"<", "h", "t", "m", "l", ">", "<", "b", "o", "d", "y", ">", "<", "h", "1", ">", "I", "n", "d", "e", "x", " ", "o", "f", " ">> \o path \o <<"<", "/", "h", "1", ">", "<", "u", "l", ">">>
  \o ListItems(Entries(f, path)) \o <<"<", "/", "u", "l", ">", "<", "/", "b", "o", "d", "y", ">", "<", "/", "h", "t", "m", "l", ">">>

\* ensureDir: mkdir of a single missing level
ensureDir(f, path) ==
  LET slash == RFind(path, "/")
      parent == IF slash <= 0 THEN sSlash ELSE SubStr(path, 0, slash)
  IN IF path = <<>> \/ path \in DOMAIN f THEN f
     ELSE IF parent = sSlash \/ isDir(f, parent) THEN Put(f, path, Dir)
     ELSE f

ReceivedPost(req) ==
  <<"R", "e", "c", "e", "i", "v", "e", "d", " ", "P", "O", "S", "T", " ", "(">> \o Dec(Len(req.body)) \o <<" ", "b", "y", "t", "e", "s", ")", LF>>

-----------------------------------------------------------------------------
(* CGI *)

\* the programs a CGI script may be: the blocks it writes to stdout, in order
\* (it may exit before it has written them all)
CgiPrograms == {<<<<"S", "t", "a", "t", "u", "s", ":", " ", "2", "0", "1", " ", "M", "a", "d", "e", CR, LF, CR, LF>>, <<"o", "k">>>>}

\* PATH_INFO and QUERY_STRING as the child derives them from the URI
CgiEnv(req, filePath) ==
  LET qpos == Find(req.uri, <<"?">>, 0)
  IN [REQUEST_METHOD |-> req.method, SCRIPT_FILENAME |-> filePath,
      PATH_INFO |-> IF qpos # NPOS THEN SubStr(req.uri, 0, qpos) ELSE req.uri,
      QUERY_STRING |-> IF qpos # NPOS THEN SubStrFrom(req.uri, qpos + 1)
                       ELSE <<>>,
      CONTENT_LENGTH |-> Dec(Len(req.body))]

NextPid(w) == Cardinality(DOMAIN w.procs) + 1

\* Server::MaybeStartCgi; forkOk tells whether fork succeeds, prog is the
\* program the script turns out to be
MaybeStartCgi(w, key, filePath, forkOk, prog) ==
  LET c == w.m_clients[key]
      free == SetToSeq(FreeFds(w.fdt))
      pid == NextPid(w)
  IN IF Len(free) < 4 \/ ~forkOk \/ pid > MaxChildren
     THEN [ok |-> FALSE, w |-> w]
     ELSE
       \* inPipe = {free[1], free[2]}, outPipe = {free[3], free[4]}; the
       \* parent closes inPipe[0] and outPipe[1]
       LET inFd == free[2]
           outFd == free[3]
       IN [ok |-> TRUE,
           w |-> [w EXCEPT
                    !.fdt = Put(Put(@, inFd, StdinEnd(pid)), outFd,
                                StdoutEnd(pid)),
                    !.procs = Put(@, pid,
                                  [state |-> "running", prog |-> prog,
                                   out |-> <<>>, written |-> <<>>,
                                   stdin |-> <<>>,
                                   stdinOpen |-> TRUE, stdoutRead |-> TRUE,
                                   env |-> CgiEnv(c.m_request, filePath)]),
                    !.m_cgiFdToClient = Put(Put(@, inFd, c.m_fd), outFd,
                                            c.m_fd),
                    !.m_clients[key].m_cgiInFd = inFd,
                    !.m_clients[key].m_cgiOutFd = outFd,
                    !.m_clients[key].m_cgiPid = pid,
                    !.m_clients[key].m_cgiActive = TRUE]]

Alive(w, pid) ==
  pid \in DOMAIN w.procs /\ w.procs[pid].state \in {"running", "killed"}

\* the child process a pipe descriptor of the server leads to, 0 if none
PipeOf(w, fd, kind) ==
  IF fd \in DOMAIN w.fdt /\ w.fdt[fd].kind = kind THEN w.fdt[fd].ref ELSE 0

\* the child writes what is left of its program and exits
FinishChild(w, pid) ==
  IF pid \in DOMAIN w.procs /\ w.procs[pid].state = "running"
  THEN [w EXCEPT !.procs[pid].out = @ \o Concat(w.procs[pid].prog),
                 !.procs[pid].written = @ \o Concat(w.procs[pid].prog),
                 !.procs[pid].prog = <<>>,
                 !.procs[pid].state = "zombie"]
  ELSE w

\* the value of a CGI header line without its leading blanks
CgiValue(raw) ==
  LET lead == {i \in 1..Len(raw) : raw[i] \notin {" ", "\t"}}
  IN IF lead = {} THEN <<>>
     ELSE SubSeq(raw, CHOOSE i \in lead : \A j \in lead : i <= j, Len(raw))

\* DriveCgiIO, the header loop, what one name: value line does to the
\* variables of the loop
CgiHeaderField(acc, name, lower, value, c, sp) ==
  IF lower = sStatus
  THEN [acc EXCEPT
          !.code = IF c >= 100 /\ c <= 599 THEN c ELSE @,
          !.reason = IF sp # NPOS /\ SubStrFrom(value, sp + 1) # <<>>
                     THEN SubStrFrom(value, sp + 1) ELSE @]
  ELSE IF lower = Lower(sContentType)
  THEN [acc EXCEPT !.contentType = value]
  ELSE IF lower = Lower(sConnection)
  THEN [acc EXCEPT !.connectionHdr = value]
  ELSE [acc EXCEPT !.passHeaders = Append(@, Hdr(name, value))]

CgiHeaderValue(acc, name, value) ==
  CgiHeaderField(acc, name, Lower(name), value, atoi(value),
                 Find(value, <<" ">>, 0))

CgiHeaderLine(acc, line, colon) ==
  IF colon = NPOS THEN acc
  ELSE CgiHeaderValue(acc, SubStr(line, 0, colon),
                      CgiValue(SubStrFrom(line, colon + 1)))

RECURSIVE CgiHeaderLoop(_, _, _)
CgiHeaderAt(headerBlock, end, line, acc) ==
  IF line = <<>> THEN acc
  ELSE IF end = NPOS THEN CgiHeaderLine(acc, line, Find(line, <<":">>, 0))
  ELSE CgiHeaderLoop(headerBlock, end + 2,
                     CgiHeaderLine(acc, line, Find(line, <<":">>, 0)))

CgiLineAt(headerBlock, start, end) ==
  IF end = NPOS THEN SubStrFrom(headerBlock, start)
  ELSE SubStr(headerBlock, start, end - start)

\* the header lines of a CGI header block, parsed as DriveCgiIO parses them
CgiHeaderLoop(headerBlock, start, acc) ==
  IF start > Len(headerBlock) THEN acc
  ELSE CgiHeaderAt(headerBlock, Find(headerBlock, CRLF, start),
                   CgiLineAt(headerBlock, start,
                             Find(headerBlock, CRLF, start)),
                   acc)

\* DriveCgiIO, from "Determine keep-alive" to the queued response
CgiBuild(h, body) ==
  LET keepAlive == IF h.connectionHdr = <<>> THEN TRUE
                   ELSE Lower(h.connectionHdr) = sKeepAlive
      haveCL == \E i \in 1..Len(h.passHeaders) :
                   Lower(h.passHeaders[i].name) = Lower(sContentLength)
      haveCT == \E i \in 1..Len(h.passHeaders) :
                   Lower(h.passHeaders[i].name) = Lower(sContentType)
  IN [keepAlive |-> keepAlive,
      resp |->
        <<StatusTok(h.code, h.reason),
          HeadersTok(h.passHeaders
                     \o (IF haveCL THEN <<>>
                         ELSE <<Hdr(sContentLength, Dec(Len(body)))>>)
                     \o (IF ~haveCT /\ h.contentType # <<>>
                         THEN <<Hdr(sContentType, h.contentType)>> ELSE <<>>)
                     \o <<Hdr(sConnection, ConnectionValue(keepAlive))>>)>>
        \o (IF body = <<>> THEN <<>> ELSE <<BodyTok(body)>>)]

\* the response DriveCgiIO builds from the buffered CGI output
CgiResponse(buffer, pos) ==
  CgiBuild(CgiHeaderLoop(SubStr(buffer, 0, pos), 0,
                         [code |-> 200, reason |-> rOK,
                          contentType |-> sTextHtml, connectionHdr |-> <<>>,
                          passHeaders |-> <<>>]),
           SubStrFrom(buffer, pos + 4))

\* DriveCgiIO, "write request body to CGI stdin"; n is what write accepts
CgiWrite(w, key, n) ==
  LET c == w.m_clients[key]
      body == c.m_request.body
      off == c.m_cgiWriteOffset + n
      pid == PipeOf(w, c.m_cgiInFd, "stdin")
      wa == IF n > 0
            THEN [w EXCEPT
                    !.procs[pid].stdin = @ \o SubStrFrom(body, c.m_cgiWriteOffset),
                    !.m_clients[key].m_cgiWriteOffset = off]
            ELSE w
  IN IF c.m_cgiInFd >= 0 /\ c.m_cgiWriteOffset < Len(body)
     THEN IF off >= Len(body)
          THEN [close(wa, c.m_cgiInFd) EXCEPT
                  !.m_cgiFdToClient = Del(@, c.m_cgiInFd),
                  !.m_clients[key].m_cgiInFd = -1]
          ELSE wa
     ELSE w

\* what write accepts: all that is left while the child has stdin open
CgiWritable(w, key) ==
  LET c == w.m_clients[key]
      pid == PipeOf(w, c.m_cgiInFd, "stdin")
  IN IF pid # 0 /\ Alive(w, pid)
     THEN Len(c.m_request.body) - c.m_cgiWriteOffset ELSE 0

\* DriveCgiIO, "read CGI stdout": read until the pipe is empty
CgiRead(w, key) ==
  LET c == w.m_clients[key]
      pid == PipeOf(w, c.m_cgiOutFd, "stdout")
  IN IF c.m_cgiOutFd >= 0 /\ pid # 0
     THEN [w EXCEPT !.m_clients[key].m_cgiBuffer = @ \o w.procs[pid].out,
                    !.procs[pid].out = <<>>]
     ELSE w

\* the return value of waitpid(m_cgiPid, &status, WNOHANG)
WaitResult(w, pid) ==
  LET unwaited == {p \in DOMAIN w.procs : w.procs[p].state # "reaped"}
  IN IF pid > 0
     THEN IF Exited(w, pid) THEN pid
          ELSE IF pid \in unwaited THEN 0 ELSE -1
     ELSE IF unwaited = {} THEN -1 ELSE 0

\* DriveCgiIO, "check if child exited"; r is what waitpid returned
CgiWait(w, key, r) ==
  LET c == w.m_clients[key]
      wa == IF c.m_cgiPid > 0 THEN waitpid(w, c.m_cgiPid) ELSE w
      wb == IF c.m_cgiOutFd >= 0
            THEN [close(wa, c.m_cgiOutFd) EXCEPT
                    !.m_cgiFdToClient = Del(@, c.m_cgiOutFd),
                    !.m_clients[key].m_cgiOutFd = -1]
            ELSE wa
  IN IF r = c.m_cgiPid
     THEN [wb EXCEPT !.m_clients[key].m_cgiActive = FALSE]
     ELSE wa

\* DriveCgiIO, from "parse headers" to the end; pos is where the buffered
\* output has its first CRLF-CRLF
CgiRespond(w, key, pos) ==
  LET c == w.m_clients[key]
  IN IF c.m_cgiBuffer # <<>> /\ ~c.m_cgiHeadersDone /\ pos # NPOS
     THEN [ret |-> TRUE,
           w |-> [w EXCEPT
                    !.m_clients[key].m_cgiHeadersDone = TRUE,
                    !.m_clients[key].m_cgiBodyStart = pos + 4,
                    !.m_clients[key].m_keepAlive =
                       CgiResponse(c.m_cgiBuffer, pos).keepAlive,
                    !.m_clients[key].m_writeBuf =
                       CgiResponse(c.m_cgiBuffer, pos).resp,
                    !.m_clients[key].m_phase = kPhaseRespond,
                    !.m_clients[key].m_wantWrite = TRUE]]
     ELSE IF ~c.m_cgiActive /\ ~c.m_cgiHeadersDone
     THEN [ret |-> FALSE,
           w |-> [w EXCEPT
                    !.m_clients[key].m_keepAlive = FALSE,
                    !.m_clients[key].m_writeBuf =
                       buildResponse(500, rInternalServerError, bodyCgiFailed,
                                     sTextPlain, FALSE, FALSE),
                    !.m_clients[key].m_phase = kPhaseRespond,
                    !.m_clients[key].m_wantWrite = TRUE]]
     ELSE [ret |-> TRUE, w |-> w]

CgiWaited(w, key) ==
  CgiWait(w, key, WaitResult(w, w.m_clients[key].m_cgiPid))
CgiResponded(w, key) ==
  CgiRespond(w, key, Find(w.m_clients[key].m_cgiBuffer, CRLFCRLF, 0))
CgiLate(w, key, late) ==
  IF late /\ w.m_clients[key].m_cgiPid > 0
  THEN FinishChild(w, w.m_clients[key].m_cgiPid) ELSE w

\* Server::DriveCgiIO; late tells whether the child finishes between the read
\* loop and waitpid
DriveCgiIO(w, key, late) ==
  CgiResponded(
    CgiWaited(
      CgiLate(CgiRead(CgiWrite(w, key, CgiWritable(w, key)), key), key, late),
      key),
    key)

\* HandleCgiEvent, the lines after DriveCgiIO in the POLLHUP | POLLERR branch
CgiHangup(w, clientFd, fd) ==
  LET c == w.m_clients[clientFd]
      w2 == IF c.m_cgiOutFd = fd
            THEN [close(w, fd) EXCEPT !.m_cgiFdToClient = Del(@, fd),
                                      !.m_clients[clientFd].m_cgiOutFd = -1]
            ELSE w
      w3 == IF c.m_cgiInFd = fd
            THEN [close(w2, fd) EXCEPT !.m_cgiFdToClient = Del(@, fd),
                                       !.m_clients[clientFd].m_cgiInFd = -1]
            ELSE w2
  IN [w3 EXCEPT !.m_clients[clientFd].m_cgiActive = FALSE]

\* HandleCgiEvent, from "ClientConnection &conn = cit->second" on: clientFd
\* is the key under which the connection was found
CgiEventOn(w, clientFd, fd, revents, late) ==
  IF ~w.m_clients[clientFd].m_cgiActive THEN w
  ELSE IF revents \cap {POLLHUP, POLLERR} # {}
  THEN DriveCgiIO(CgiHangup(DriveCgiIO(w, clientFd, late).w, clientFd, fd),
                  clientFd, FALSE).w
  ELSE DriveCgiIO(w, clientFd, late).w

\* Server::HandleCgiEvent
HandleCgiEvent(w, fd, revents, late) ==
  IF fd \notin DOMAIN w.m_cgiFdToClient THEN w
  ELSE IF w.m_cgiFdToClient[fd] \notin DOMAIN w.m_clients
  THEN [close(w, fd) EXCEPT !.m_cgiFdToClient = Del(@, fd)]
  ELSE CgiEventOn(w, w.m_cgiFdToClient[fd], fd, revents, late)

-----------------------------------------------------------------------------
(* Uploads *)

sStrerror == <<"N", "o", " ", "s", "u", "c", "h", " ", "f", "i", "l", "e", " ", "o", "r", " ", "d", "i", "r", "e", "c", "t", "o", "r", "y">>
sMultipart == <<"m", "u", "l", "t", "i", "p", "a", "r", "t", "/", "f", "o", "r", "m", "-", "d", "a", "t", "a">>
sBoundaryEq == <<"b", "o", "u", "n", "d", "a", "r", "y", "=">>
sDisposition == <<"c", "o", "n", "t", "e", "n", "t", "-", "d", "i", "s", "p", "o", "s", "i", "t", "i", "o", "n", ":">>

\* the bytes below 32 and the quote, which sanitizeFilename drops
Dropped(c) == c \in {CR, LF, "\t", "\""}

RECURSIVE Filter(_)
Filter(s) ==
  IF s = <<>> THEN <<>>
  ELSE (IF Dropped(Head(s)) THEN <<>> ELSE <<Head(s)>>) \o Filter(Tail(s))

\* sanitizeFilename
sanitizeFilename(in) ==
  LET seps == {i \in 1..Len(in) : in[i] \in {"/", "\\"}}
      start == IF seps = {} THEN 0
               ELSE CHOOSE i \in seps : \A j \in seps : j <= i
      clean == Filter(SubStrFrom(in, start))
  IN IF clean = <<>> THEN <<"u", "p", "l", "o", "a", "d", ".", "b", "i", "n">> ELSE clean

\* key and value of one ';'-separated token of a Content-Disposition line
TrimBlanks(s) ==
  LET keep == {i \in 1..Len(s) : s[i] \notin {" ", "\t"}}
  IN IF keep = {} THEN <<>>
     ELSE SubSeq(s, CHOOSE i \in keep : \A j \in keep : i <= j,
                    CHOOSE i \in keep : \A j \in keep : j <= i)
Unquote(val) ==
  IF val # <<>> /\ val[1] = "\"" /\ val[Len(val)] = "\"" /\ Len(val) >= 2
  THEN SubSeq(val, 2, Len(val) - 1) ELSE val

\* parseContentDisposition, what one token does to name and filename
DispositionToken(acc, token, eq) ==
  IF eq = NPOS THEN acc
  ELSE IF TrimBlanks(SubStr(token, 0, eq)) = <<"n", "a", "m", "e">>
  THEN [acc EXCEPT !.name = Unquote(SubStrFrom(token, eq + 1))]
  ELSE IF TrimBlanks(SubStr(token, 0, eq)) = <<"f", "i", "l", "e", "n", "a", "m", "e">>
  THEN [acc EXCEPT !.filename = Unquote(SubStrFrom(token, eq + 1))]
  ELSE acc

DispositionAt(acc, token) == DispositionToken(acc, token, Find(token, <<"=">>, 0))

\* the position of the first non-blank byte of after at or beyond p0
SkipBlanks(after, p0) ==
  LET lead == {i \in p0..(Len(after) - 1) : after[i + 1] \notin {" ", "\t"}}
  IN IF lead = {} THEN Len(after)
     ELSE CHOOSE i \in lead : \A j \in lead : i <= j

TokenEnd(after, semi) == IF semi = NPOS THEN Len(after) ELSE semi

\* parseContentDisposition, the loop over the tokens: acc is [name, filename]
RECURSIVE DispositionLoop(_, _, _)
DispositionFrom(after, p, q, acc) ==
  DispositionLoop(after, q + 1, DispositionAt(acc, SubStr(after, p, q - p)))

DispositionSkip(after, p, acc) ==
  DispositionFrom(after, p, TokenEnd(after, Find(after, <<";">>, p)), acc)

DispositionLoop(after, p0, acc) ==
  IF p0 >= Len(after) THEN acc
  ELSE DispositionSkip(after, SkipBlanks(after, p0), acc)

DispositionAfter(line, pos, acc) ==
  IF pos = NPOS THEN acc
  ELSE DispositionLoop(SubStrFrom(line, pos + 1), 0, acc)

parseContentDisposition(line, acc) ==
  DispositionAfter(line, Find(line, <<":">>, 0), acc)

PartLine(line, acc) ==
  IF Find(Lower(line), sDisposition, 0) = 0
  THEN parseContentDisposition(line, acc) ELSE acc

\* parseMultipartFormData, the loop over the header lines of one part
RECURSIVE PartHeaders(_, _, _)
PartLineAt(headers, hp, he, acc) ==
  PartHeaders(headers, he + 2, PartLine(SubStr(headers, hp, he - hp), acc))

PartHeaders(headers, hp, acc) ==
  IF hp >= Len(headers) THEN acc
  ELSE PartLineAt(headers, hp, TokenEnd(headers, Find(headers, CRLF, hp)), acc)

\* sprintf("%lu") of the size_t dataEnd - dataStart, which wraps when the
\* part is empty and the CRLF before the boundary is the end of its headers
DecSize(d) == IF d = -2 THEN <<"1", "8", "4", "4", "6", "7", "4", "4", "0", "7", "3", "7", "0", "9", "5", "5", "1", "6", "1", "4">> ELSE Dec(d)

\* parseMultipartFormData, "if (!fileName.empty())": st is [fs, saved]
SavePartAs(st, fsDir, uploadPath, full, part, data, size, osOk) ==
  IF part.filename = <<>> THEN st
  ELSE IF ~(osOk /\ isDir(fsDir, uploadPath) /\ ~isDir(fsDir, full))
  THEN [st EXCEPT !.fs = fsDir]
  ELSE [fs |-> Put(fsDir, full, File(data)),
        saved |-> Append(st.saved, [field |-> part.name, filename |-> full,
                                    size |-> size])]

WithSlash(path) == IF path[Len(path)] # "/" THEN path \o sSlash ELSE path

SavePart(st, uploadPath, part, data, size, osOk) ==
  SavePartAs(st, ensureDir(st.fs, uploadPath), uploadPath,
             WithSlash(uploadPath) \o sanitizeFilename(part.filename),
             part, data, size, osOk)

DataEnd(body, nextBoundary) ==
  IF nextBoundary >= 2 /\ SubStr(body, nextBoundary - 2, 2) = CRLF
  THEN nextBoundary - 2 ELSE nextBoundary

PartData(body, dataStart, dataEnd) ==
  IF dataEnd > dataStart THEN SubStr(body, dataStart, dataEnd - dataStart)
  ELSE <<>>

MultipartPart(body, uploadPath, st, osOk, headerStart, headerEnd, dataEnd) ==
  SavePart(st, uploadPath,
           PartHeaders(SubStr(body, headerStart, headerEnd - headerStart), 0,
                       [name |-> <<>>, filename |-> <<>>]),
           PartData(body, headerEnd + 4, dataEnd), dataEnd - (headerEnd + 4),
           osOk)

\* parseMultipartFormData, the loop over the parts
RECURSIVE MultipartLoop(_, _, _, _, _, _)
MultipartNext(body, marker, uploadPath, st, osOk, headerStart, headerEnd, next) ==
  IF next = NPOS THEN st
  ELSE MultipartLoop(body, marker, uploadPath, next,
                     MultipartPart(body, uploadPath, st, osOk, headerStart,
                                   headerEnd, DataEnd(body, next)),
                     osOk)

MultipartAt(body, marker, uploadPath, st, osOk, headerStart, headerEnd) ==
  IF headerEnd = NPOS THEN st
  ELSE MultipartNext(body, marker, uploadPath, st, osOk, headerStart,
                     headerEnd, Find(body, marker, headerEnd + 4))

MultipartBoundary(body, marker, uploadPath, st, osOk, b) ==
  IF b + 2 <= Len(body) /\ SubStr(body, b, 2) = <<"-", "-">> THEN st
  ELSE IF b + 2 > Len(body) \/ SubStr(body, b, 2) # CRLF
  THEN MultipartLoop(body, marker, uploadPath, b, st, osOk)
  ELSE MultipartAt(body, marker, uploadPath, st, osOk, b + 2,
                   Find(body, CRLFCRLF, b + 2))

MultipartFound(body, marker, uploadPath, st, osOk, b0) ==
  IF b0 = NPOS THEN st
  ELSE MultipartBoundary(body, marker, uploadPath, st, osOk, b0 + Len(marker))

MultipartLoop(body, marker, uploadPath, cursor, st, osOk) ==
  IF cursor >= Len(body) THEN st
  ELSE MultipartFound(body, marker, uploadPath, st, osOk,
                      Find(body, marker, cursor))

parseMultipartFormData(f, body, boundary, uploadPath, osOk) ==
  MultipartLoop(body, <<"-", "-">> \o boundary, uploadPath, 0,
                [fs |-> f, saved |-> <<>>], osOk)

RECURSIVE SavedLines(_)
SavedLines(saved) ==
  IF saved = <<>> THEN <<>>
  ELSE <<"S", "a", "v", "e", "d", " ", "f", "i", "e", "l", "d", "=", "'">> \o Head(saved).field \o <<"'", " ", "-", ">", " ">>
       \o Head(saved).filename \o <<" ", "(">> \o DecSize(Head(saved).size)
       \o <<")", LF>> \o SavedLines(Tail(saved))

\* the boundary parameter of a multipart Content-Type
Unquoted(b0, endq) ==
  IF b0 # <<>> /\ b0[1] = "\"" /\ endq # NPOS
  THEN SubStr(b0, 1, endq - 1) ELSE b0
BoundaryFrom(b0) == Unquoted(b0, Find(b0, <<"\"">>, 1))
BoundaryAt(ctype, bpos) ==
  IF bpos = NPOS THEN <<>> ELSE BoundaryFrom(SubStrFrom(ctype, bpos + 9))
BoundaryOf(ctype) == BoundaryAt(ctype, Find(ctype, sBoundaryEq, 0))

MultipartResult(res) ==
  IF res.saved = <<>>
  THEN [fs |-> res.fs, text |-> <<"M", "u", "l", "t", "i", "p", "a", "r", "t", " ", "p", "a", "r", "s", "e", " ", "e", "r", "r", "o", "r", LF>>]
  ELSE [fs |-> res.fs, text |-> SavedLines(res.saved)]

MultipartWith(f, req, boundary, destDir, osOk) ==
  IF boundary = <<>>
  THEN [fs |-> f, text |-> <<"M", "i", "s", "s", "i", "n", "g", " ", "b", "o", "u", "n", "d", "a", "r", "y", " ", "p", "a", "r", "a", "m", "e", "t", "e", "r", LF>>]
  ELSE MultipartResult(
         parseMultipartFormData(f, req.body, boundary, destDir, osOk))

\* the multipart branch of the upload POST: the files written and the text
\* appended to the response body
MultipartUpload(f, req, ctype, destDir, osOk) ==
  MultipartWith(f, req, BoundaryOf(ctype), destDir, osOk)

\* the raw branch of the upload POST: upload_<n>.bin under destDir
RawUpload(f, req, destDir, n, osOk) ==
  LET full == WithSlash(destDir) \o <<"u", "p", "l", "o", "a", "d", "_">> \o Dec(n) \o <<".", "b", "i", "n">>
  IN IF osOk /\ isDir(f, destDir)
     THEN [fs |-> Put(f, full, File(req.body)),
           text |-> <<"S", "t", "o", "r", "e", "d", " ", "r", "a", "w", " ", "b", "o", "d", "y", " ", "a", "s", " ">> \o full \o <<LF>>]
     ELSE [fs |-> f, text |-> <<>>]

-----------------------------------------------------------------------------
(* Server::HandleReadable *)

\* what the handler queues: the lines common to every branch that answers
Reply(c, buf, keepAlive) ==
  [c EXCEPT !.m_keepAlive = keepAlive, !.m_writeBuf = buf,
            !.m_phase = kPhaseRespond, !.m_wantWrite = TRUE]

IsHead(req) == req.method = sHEAD

UploadDone(w, c, raw, up) ==
  [w |-> [w EXCEPT !.fs = up.fs,
                   !.uploadCounter.bin = IF raw THEN @ + 1 ELSE @],
   c |-> [Reply(c, buildResponse(200, rOK, ReceivedPost(c.m_request) \o up.text,
                                 sTextPlain, KeepAliveOf(c.m_request), FALSE),
                KeepAliveOf(c.m_request))
          EXCEPT !.m_bodyComplete = TRUE]]

UploadInto(w, c, ctype, destDir, osOk) ==
  IF Find(ctype, sMultipart, 0) # NPOS
  THEN UploadDone(w, c, FALSE,
                  MultipartUpload(ensureDir(w.fs, destDir), c.m_request, ctype,
                                  destDir, osOk))
  ELSE UploadDone(w, c, TRUE,
                  RawUpload(ensureDir(w.fs, destDir), c.m_request, destDir,
                            w.uploadCounter.bin + 1, osOk))

\* the POST branch of a route with uploads enabled
UploadPost(w, c, route, osOk) ==
  UploadInto(w, c, hasHeader(c.m_request, sContentType).value,
             IF route.uploadPath = <<>> THEN route.root ELSE route.uploadPath,
             osOk)

\* the branch of a readable file: GET/HEAD, POST, DELETE, anything else
FileBranch(w, c, sc, route, filePath, osOk) ==
  LET req == c.m_request
      ka == KeepAliveOf(req)
      body == w.fs[filePath].data
      base == WithSlash(route.uploadPath)
      fname == <<"u", "p", "l", "o", "a", "d", "_">> \o Dec(w.uploadCounter.dat + 1) \o <<".", "d", "a", "t">>
      store == route.uploadsEnabled /\ route.uploadPath # <<>>
      saved == osOk /\ isDir(w.fs, route.uploadPath)
  IN IF req.method \in {sGET, sHEAD}
     THEN [w |-> w,
           c |-> [Reply(c, buildResponse(200, rOK, body, guessType(filePath),
                                         ka, IsHead(req)), ka)
                  EXCEPT !.m_bodyComplete = TRUE]]
     ELSE IF req.method = sPOST
     THEN [w |-> IF store
                 THEN [w EXCEPT
                         !.uploadCounter.dat = @ + 1,
                         !.fs = IF saved
                                THEN Put(@, base \o fname, File(req.body))
                                ELSE @]
                 ELSE w,
           c |-> Reply(c, buildResponse(
                            200, rOK,
                            ReceivedPost(req)
                            \o (IF ~store THEN <<>>
                                ELSE IF saved
                                THEN <<"S", "t", "o", "r", "e", "d", " ", "a", "s", " ">> \o fname \o <<LF>>
                                ELSE <<"U", "p", "l", "o", "a", "d", " ", "s", "a", "v", "e", " ", "f", "a", "i", "l", "e", "d", " ", "e", "r", "r", "n", "o", "=">>
                                     \o sStrerror \o <<LF>>),
                            sTextPlain, ka, FALSE), ka)]
     ELSE IF req.method = sDELETE
     THEN [w |-> w,
           c |-> Reply(c, buildResponse(
                            501, rNotImplemented,
                            loadErrorPageBody(w.fs, sc, 501, body501),
                            sTextPlain, FALSE, FALSE), FALSE)]
     ELSE [w |-> w,
           c |-> Reply(c, buildResponse(
                            405, rMethodNotAllowed,
                            loadErrorPageBody(w.fs, sc, 405, body405),
                            sTextPlain, FALSE, FALSE), FALSE)]

\* the DELETE branch
DeleteBranch(w, c, sc, filePath, osOk) ==
  IF CanReadFile(w.fs, filePath)
  THEN IF osOk
       THEN [w |-> [w EXCEPT !.fs = Del(@, filePath)],
             c |-> Reply(c, buildResponse(204, rNoContent, <<>>, sTextPlain,
                                          KeepAliveOf(c.m_request), FALSE),
                         KeepAliveOf(c.m_request))]
       ELSE [w |-> w,
             c |-> Reply(c, buildResponse(
                              500, rInternalServerError,
                              loadErrorPageBody(w.fs, sc, 500, body500),
                              sTextPlain, FALSE, FALSE), FALSE)]
  ELSE IF isDir(w.fs, filePath)
  THEN [w |-> w,
        c |-> Reply(c, buildResponse(
                         403, rForbidden,
                         loadErrorPageBody(w.fs, sc, 403, body403),
                         sTextPlain, FALSE, FALSE), FALSE)]
  ELSE [w |-> w,
        c |-> Reply(c, buildResponse(
                         404, rNotFound,
                         loadErrorPageBody(w.fs, sc, 404, body404),
                         sTextPlain, FALSE, FALSE), FALSE)]

\* the directory branch
DirBranch(w, c, sc, route, filePath, osOk) ==
  IF route.directoryListing
  THEN IF osOk
       THEN Reply(c, buildResponse(200, rOK, listDir(w.fs, filePath),
                                   sTextHtml, KeepAliveOf(c.m_request),
                                   IsHead(c.m_request)),
                  KeepAliveOf(c.m_request))
       ELSE Reply(c, buildResponse(
                       500, rInternalServerError,
                       loadErrorPageBody(w.fs, sc, 500, body500), sTextPlain,
                       FALSE, IsHead(c.m_request)), FALSE)
  ELSE Reply(c, buildResponse(403, rForbidden,
                              loadErrorPageBody(w.fs, sc, 403, body403),
                              sTextPlain, FALSE, IsHead(c.m_request)), FALSE)

Store(w, key, cc) == [w EXCEPT !.m_clients[key] = cc]
StoreBoth(key, b) == [b.w EXCEPT !.m_clients[key] = b.c]

\* HandleReadable from "Check if CGI applies" to the final 404, for the file
\* path the route resolves the target to
HandleTarget(w, key, c, sc, route, filePath, t, forkOk, prog, osOk) ==
  LET req == c.m_request
      st == MaybeStartCgi(Store(w, key, c), key, filePath, forkOk, prog)
  IN IF route.cgiExtension # <<>> /\ EndsWith(filePath, route.cgiExtension)
     THEN IF st.ok
          THEN [st.w EXCEPT !.m_clients[key].m_cgiStartMs = t,
                            !.m_clients[key].m_phase = kPhaseHandle,
                            \* line 720 sets false, line 988 then true
                            !.m_clients[key].m_wantWrite = TRUE]
          ELSE Store(w, key, Reply(c, buildResponse(
                                   500, rInternalServerError,
                                   loadErrorPageBody(w.fs, sc, 500, body500),
                                   sTextPlain, FALSE, FALSE), FALSE))
     ELSE IF req.method = sPOST /\ route.uploadsEnabled
     THEN StoreBoth(key, UploadPost(w, c, route, osOk))
     ELSE IF isDir(w.fs, filePath)
     THEN Store(w, key, DirBranch(w, c, sc, route, filePath, osOk))
     ELSE IF req.method = sDELETE
     THEN StoreBoth(key, DeleteBranch(w, c, sc, filePath, osOk))
     ELSE IF CanReadFile(w.fs, filePath)
     THEN StoreBoth(key, FileBranch(w, c, sc, route, filePath, osOk))
     ELSE Store(w, key, Reply(c, buildResponse(
                              404, rNotFound,
                              loadErrorPageBody(w.fs, sc, 404, body404),
                              sTextPlain, FALSE, IsHead(req)), FALSE))

\* HandleRoute without the traversal guard
HandleRouteUnguarded(w, key, c, sc, route, t, forkOk, prog, osOk) ==
  LET req == c.m_request
      rel0 == SubStrFrom(req.uri, Len(route.path))
      rel == IF (rel0 = <<>> \/ rel0 = sSlash) /\ route.index # <<>>
             THEN sSlash \o route.index ELSE rel0
  IN IF route.methods # <<>>
        /\ \A i \in 1..Len(route.methods) : route.methods[i] # req.method
     THEN Store(w, key, Reply(c, buildResponse(405, rMethodNotAllowed, body405,
                                               sTextPlain, FALSE, IsHead(req)),
                              FALSE))
     ELSE IF route.redirect # <<>>
     THEN Store(w, key,
                [Reply(c, buildRedirect(302, rFound, route.redirect, FALSE),
                       FALSE)
                 EXCEPT !.m_bodyComplete = TRUE])
     ELSE HandleTarget(w, key, c, sc, route, route.root \o rel, t, forkOk,
                       prog, osOk)

\* HandleReadable from the method filter to the traversal check, for the
\* route matchRoute returned
HandleRoute(w, key, c, sc, route, t, forkOk, prog, osOk) ==
  LET req == c.m_request
      rel0 == SubStrFrom(req.uri, Len(route.path))
      rel == IF (rel0 = <<>> \/ rel0 = sSlash) /\ route.index # <<>>
             THEN sSlash \o route.index ELSE rel0
  IN IF route.methods # <<>>
        /\ \A i \in 1..Len(route.methods) : route.methods[i] # req.method
     THEN Store(w, key, Reply(c, buildResponse(405, rMethodNotAllowed, body405,
                                               sTextPlain, FALSE, IsHead(req)),
                              FALSE))
     ELSE IF route.redirect # <<>>
     THEN Store(w, key,
                [Reply(c, buildRedirect(302, rFound, route.redirect, FALSE),
                       FALSE)
                 EXCEPT !.m_bodyComplete = TRUE])
     ELSE IF Find(rel, sDotDot, 0) # NPOS
     THEN Store(w, key, Reply(c, buildResponse(
                              403, rForbidden,
                              loadErrorPageBody(w.fs, sc, 403, body403),
                              sTextPlain, FALSE, IsHead(req)), FALSE))
     ELSE HandleTarget(w, key, c, sc, route, route.root \o rel, t, forkOk,
                       prog, osOk)

\* HandleReadable from the body-size check to matchRoute, for the index
\* selectServer returned
HandleSelected(w, key, idx, ri, t, forkOk, prog, osOk) ==
  LET sc == m_config[idx + 1]
      c == [w.m_clients[key] EXCEPT
              !.m_headersComplete = TRUE,
              !.m_phase = IF @ = kPhaseAccepted THEN kPhaseHeaders ELSE @,
              !.m_serverIndex = idx]
      req == c.m_request
  IN IF Len(req.body) > sc.clientMaxBodySize
     THEN Store(w, key, Reply(c, buildResponse(
                              413, rPayloadTooLarge,
                              loadErrorPageBody(w.fs, sc, 413, body413),
                              sTextPlain, FALSE, FALSE), FALSE))
     ELSE IF ri = 0
     THEN Store(w, key, Reply(c, buildResponse(
                              404, rNotFound,
                              loadErrorPageBody(w.fs, sc, 404, body404),
                              sTextPlain, FALSE, IsHead(req)), FALSE))
     ELSE HandleRoute(w, key, c, sc, sc.routes[ri], t, forkOk, prog, osOk)

RouteIndex(idx, req) == matchRoute(m_config[idx + 1], req.uri)

\* the part of HandleReadable that runs once Parse reports complete or error,
\* from the parser-error check to the final m_wantWrite = true
HandleRequest(w, key, t, forkOk, prog, osOk) ==
  IF Error(w.m_clients[key].m_parser)
  THEN Store(w, key, Reply(w.m_clients[key],
                           buildResponse(
                             400, rBadRequest,
                             loadErrorPageBody(w.fs, m_config[1], 400, body400),
                             sTextPlain, FALSE, FALSE), FALSE))
  ELSE HandleSelected(
         w, key, selectServer(m_config, w.m_clients[key].m_request),
         RouteIndex(selectServer(m_config, w.m_clients[key].m_request),
                    w.m_clients[key].m_request),
         t, forkOk, prog, osOk)

\* HandleReadable, one turn of the recv loop after recv returned n bytes: buf
\* is the inbound buffer with them appended, r what Parse returns on it
Received(w, key, sid, n, buf, r, t) ==
  [ret |-> r.ret,
   w |-> [w EXCEPT !.socks[sid].inq = SubStrFrom(@, n),
                   !.m_clients[key].m_readBuf = buf,
                   !.m_clients[key].m_lastActivityMs = t,
                   !.m_clients[key].m_parser = r.p,
                   !.m_clients[key].m_request = r.req]]

\* what recv returns on the connection's descriptor
RecvLen(w, key) ==
  IF SockOf(w, w.m_clients[key].m_fd) = 0 THEN 0
  ELSE Min(RecvBufSize, Len(w.socks[SockOf(w, w.m_clients[key].m_fd)].inq))

RecvBuf(w, key, sid, n) ==
  w.m_clients[key].m_readBuf \o SubSeq(w.socks[sid].inq, 1, n)

ParseBuf(w, key, buf) ==
  Parse(buf, w.m_clients[key].m_parser, w.m_clients[key].m_request)

RECURSIVE HandleReadable(_, _, _, _, _, _)
AfterParse(r, key, t, forkOk, prog, osOk) ==
  IF r.ret \/ Error(r.w.m_clients[key].m_parser)
  THEN HandleRequest(r.w, key, t, forkOk, prog, osOk)
  ELSE HandleReadable(r.w, key, t, forkOk, prog, osOk)

Recv(w, key, sid, n, buf, t) ==
  Received(w, key, sid, n, buf, ParseBuf(w, key, buf), t)

\* Server::HandleReadable: recv until it yields nothing or a request is
\* complete or in error
HandleReadable(w, key, t, forkOk, prog, osOk) ==
  IF RecvLen(w, key) <= 0 THEN w
  ELSE AfterParse(
         Recv(w, key, SockOf(w, w.m_clients[key].m_fd), RecvLen(w, key),
              RecvBuf(w, key, SockOf(w, w.m_clients[key].m_fd),
                      RecvLen(w, key)),
              t),
         key, t, forkOk, prog, osOk)

-----------------------------------------------------------------------------
(* The loop of main: PollOnce, then ProcessEvents *)

\* m_listenSockets.push_back(FD(fd)): the vector takes a dup of the temporary,
\* moves to new storage when it is full (dup of each element, then the old
\* ones are closed), and the temporary closes fd
PushBack(st, fd) ==
  LET n == Len(st.vec)
      grow == n \in {0, 1, 2, 4, 8}
      e == st.fdt[fd]
      nfd == LowestFree(st.fdt)
      t1 == Put(st.fdt, nfd, e)
      Moved[i \in 0..n] ==
        IF i = 0 THEN [fdt |-> t1, vec |-> <<>>]
        ELSE LET d == LowestFree(Moved[i - 1].fdt)
             IN [fdt |-> Put(Moved[i - 1].fdt, d, st.fdt[st.vec[i]]),
                 vec |-> Append(Moved[i - 1].vec, d)]
      olds == {st.vec[i] : i \in 1..n}
  IN IF grow
     THEN [fdt |-> [x \in DOMAIN Moved[n].fdt \ (olds \cup {fd}) |->
                      Moved[n].fdt[x]],
           vec |-> Append(Moved[n].vec, nfd)]
     ELSE [fdt |-> Del(t1, fd), vec |-> Append(st.vec, nfd)]

\* Server::OpenListeningSockets: descriptors 0, 1, 2 are open at the start
RECURSIVE OpenListeningSockets(_, _)
OpenListeningSockets(st, i) ==
  IF i > Len(m_config) THEN st
  ELSE LET fd == LowestFree(st.fdt)
       IN OpenListeningSockets(
            PushBack([st EXCEPT !.fdt = Put(@, fd, ListenEnd(i))], fd), i + 1)

Listening ==
  OpenListeningSockets([fdt |-> [x \in {0, 1, 2} |-> Stdio], vec |-> <<>>], 1)

\* Server::ComputePollTimeout: -1 when no connection has a deadline
ComputePollTimeout ==
  LET Deadline(c) ==
        IF ~c.m_headersComplete
        THEN c.m_createdAtMs + m_config[1].headerTimeoutMs
        ELSE IF ~c.m_bodyComplete
        THEN c.m_lastActivityMs + ServerOf(c).bodyTimeoutMs
        ELSE IF c.m_keepAlive
        THEN c.m_lastActivityMs + ServerOf(c).idleTimeoutMs
        ELSE 0
      Remain(c) == IF Deadline(c) - now < 0 THEN 0 ELSE Deadline(c) - now
      due == {Remain(m_clients[k]) :
                k \in {x \in DOMAIN m_clients : Deadline(m_clients[x]) # 0}}
  IN IF due = {} THEN -1 ELSE CHOOSE r \in due : \A q \in due : r <= q

PollFd(fd, events) == [fd |-> fd, events |-> events, revents |-> {}]

\* Server::BuildPollFds
RECURSIVE ClientPollFds(_)
ClientPollFds(keys) ==
  IF keys = <<>> THEN <<>>
  ELSE
    LET c == m_clients[Head(keys)]
    IN <<PollFd(Head(keys),
                IF c.m_wantWrite THEN {POLLIN, POLLOUT} ELSE {POLLIN})>>
       \o (IF c.m_cgiActive /\ c.m_cgiInFd >= 0
           THEN <<PollFd(c.m_cgiInFd, {POLLOUT})>> ELSE <<>>)
       \o (IF c.m_cgiActive /\ c.m_cgiOutFd >= 0
           THEN <<PollFd(c.m_cgiOutFd, {POLLIN})>> ELSE <<>>)
       \o ClientPollFds(Tail(keys))

BuildPollFds ==
  [i \in 1..Len(m_listenSockets) |-> PollFd(m_listenSockets[i], {POLLIN})]
  \o ClientPollFds(SetToSeq(DOMAIN m_clients))

\* what poll reports for one entry of the poll set
SockEvents(sid, events) ==
  (IF socks[sid].inq # <<>> \/ socks[sid].state = "shut" THEN {POLLIN}
   ELSE {})
  \cup (IF POLLOUT \in events /\ ~socks[sid].hup /\ Room(socks[sid]) > 0
        THEN {POLLOUT} ELSE {})
  \cup (IF socks[sid].hup THEN {POLLHUP} ELSE {})

Revents(p) ==
  IF p.fd \in DOMAIN fdt
  THEN LET e == fdt[p.fd]
       IN IF e.kind = "listen"
          THEN IF \E i \in DOMAIN socks :
                     socks[i].state = "backlog" /\ socks[i].port = e.ref
               THEN {POLLIN} ELSE {}
          ELSE IF e.kind = "sock" THEN SockEvents(e.ref, p.events)
          ELSE IF e.kind = "stdin"
          THEN IF Alive(World, e.ref) THEN p.events \cap {POLLOUT}
               ELSE {POLLERR}
          ELSE IF e.kind = "stdout"
          THEN (IF procs[e.ref].out # <<>> THEN p.events \cap {POLLIN} ELSE {})
               \cup (IF Alive(World, e.ref) THEN {} ELSE {POLLHUP})
          ELSE {}
  ELSE IF p.fd \in DOMAIN m_clients
          /\ SockOf(World, m_clients[p.fd].m_fd) # 0
  THEN SockEvents(SockOf(World, m_clients[p.fd].m_fd), p.events)
  ELSE {}

Polled == [i \in 1..Len(m_pfds) |-> [m_pfds[i] EXCEPT !.revents = Revents(m_pfds[i])]]

\* Server::PollOnce up to the call of poll
PollOnce ==
  /\ pc = "poll"
  /\ m_pfds' = BuildPollFds
  /\ pollUntil' = now + (IF ComputePollTimeout >= 0
                            /\ ComputePollTimeout < MainPollTimeout
                         THEN ComputePollTimeout ELSE MainPollTimeout)
  /\ pc' = "blocked"
  /\ UNCHANGED <<pvars, now, m_config, m_listenSockets, m_clients,
                 m_cgiFdToClient, fdt, socks, procs, fs, uploadCounter>>

\* poll returns: something is ready or the timeout has passed (the clock of
\* the model stops at MaxTime; a poll in progress then still times out)
PollReturn ==
  /\ pc = "blocked"
  /\ \/ \E i \in 1..Len(m_pfds) : Revents(m_pfds[i]) # {}
     \/ now >= pollUntil
     \/ now = MaxTime
  /\ m_pfds' = Polled
  /\ pollUntil' = 0
  /\ pc' = "sweep"
  /\ UNCHANGED <<pvars, now, m_config, m_listenSockets, m_clients,
                 m_cgiFdToClient, fdt, socks, procs, fs, uploadCounter>>

HasRevents(p) == p.revents # {}
Ready(pfds) == SelectSeq(pfds, HasRevents)

\* Server::ProcessEvents, first loop: the sweep for timeouts
Sweep ==
  /\ pc = "sweep"
  /\ \E dead \in BOOLEAN :
        Commit(SweepAll(World, SetToSeq(DOMAIN m_clients), now, dead))
  /\ m_pfds' = Ready(m_pfds)
  /\ pc' = IF Ready(m_pfds) = <<>> THEN "poll" ELSE "dispatch"
  /\ UNCHANGED <<pvars, now, m_config, m_listenSockets, pollUntil>>

IsListen(fd) == \E j \in 1..Len(m_listenSockets) : m_listenSockets[j] = fd

Advance ==
  /\ m_pfds' = Tail(m_pfds)
  /\ pc' = IF Tail(m_pfds) = <<>> THEN "poll" ELSE "dispatch"
  /\ UNCHANGED <<pvars, now, m_config, m_listenSockets, pollUntil>>

\* ProcessEvents, second loop, an entry of a CGI pipe
DispatchCgi ==
  /\ pc = "dispatch"
  /\ ~IsListen(Head(m_pfds).fd)
  /\ Head(m_pfds).fd \in DOMAIN m_cgiFdToClient
  /\ \E late \in BOOLEAN :
        Commit(HandleCgiEvent(World, Head(m_pfds).fd, Head(m_pfds).revents,
                              late))
  /\ Advance

\* ProcessEvents, second loop, an entry of a listening socket that is readable
DispatchAccept ==
  /\ pc = "dispatch"
  /\ IsListen(Head(m_pfds).fd)
  /\ POLLIN \in Head(m_pfds).revents
  /\ Commit(AcceptNew(World, Head(m_pfds).fd, now))
  /\ Advance

\* ProcessEvents, second loop, any other entry: the three handlers of a
\* connection, each on the entry found before the first of them ran
AfterWritable(w2, p) ==
  IF p.revents \cap {POLLHUP, POLLERR} # {}
  THEN CloseConnection(w2, p.fd) ELSE w2

AfterReadable(w1, p, n) ==
  AfterWritable(IF POLLOUT \in p.revents /\ p.fd \in DOMAIN w1.m_clients
                THEN HandleWritable(w1, p.fd, n) ELSE w1,
                p)

ClientEvents(w, p, n, forkOk, prog, osOk) ==
  IF p.fd \notin DOMAIN w.m_clients THEN w
  ELSE AfterReadable(IF POLLIN \in p.revents
                     THEN HandleReadable(w, p.fd, now, forkOk, prog, osOk)
                     ELSE w,
                     p, n)

DispatchClient ==
  /\ pc = "dispatch"
  /\ ~(~IsListen(Head(m_pfds).fd) /\ Head(m_pfds).fd \in DOMAIN m_cgiFdToClient)
  /\ ~(IsListen(Head(m_pfds).fd) /\ POLLIN \in Head(m_pfds).revents)
  /\ \E n \in {1, MaxSend}, forkOk \in BOOLEAN, prog \in CgiPrograms,
        osOk \in BOOLEAN :
        Commit(ClientEvents(World, Head(m_pfds), n, forkOk, prog, osOk))
  /\ Advance

-----------------------------------------------------------------------------
(* The peers: clients, CGI children, the clock *)

reqGet == <<"G", "E", "T", " ", "/", " ", "H", "T", "T", "P", "/", "1", ".", "1", CR, LF, CR, LF>>
reqCgi == <<"G", "E", "T", " ", "/", "x", ".", "c", " ", "H", "T", "T", "P", "/", "1", ".", "1", CR, LF, CR, LF>>
reqPostHead == <<"P", "O", "S", "T", " ", "/", "u", " ", "H", "T", "T", "P", "/", "1", ".", "1", CR, LF, "H", "o", "s", "t", ":", " ", "b", CR, LF, "C", "o", "n", "t", "e", "n", "t", "-", "L", "e", "n", "g", "t", "h", ":", " ", "2", CR, LF, CR, LF>>
\* a request line without a space
reqBad == <<"G", "E", "T", CR, LF, CR, LF>>

\* what a client sends, as the blocks it sends one after the other
Scripts ==
  {<<reqGet \o reqGet>>,
   <<reqGet, reqGet>>,
   <<<<"G", "E", "T", " ", "/", " ", "H", "T", "T", "P", "/", "1", ".", "1", CR, LF>>, CRLF>>,
   <<reqPostHead \o <<"W">>, <<"i">>>>,
   <<reqCgi, reqGet>>,
   <<reqBad, reqGet>>}

\* the listening socket the id-th client connects to: each in its turn
PortOf(id) == ((id - 1) % Len(m_config)) + 1

\* a client connects
ClientConnect ==
  /\ pc = "blocked"
  /\ Cardinality(DOMAIN socks) < MaxClients
  /\ \E script \in Scripts :
        socks' = Put(socks, Cardinality(DOMAIN socks) + 1,
                     [state |-> "backlog",
                      port |-> PortOf(Cardinality(DOMAIN socks) + 1),
                      script |-> script,
                      sent |-> <<>>, inq |-> <<>>, hup |-> FALSE,
                      wire |-> <<>>])
  /\ UNCHANGED <<pvars, now, m_config, m_listenSockets, m_clients,
                 m_cgiFdToClient, m_pfds, pc, pollUntil, fdt, procs, fs,
                 uploadCounter>>

\* a client sends its next block, once the server has read the one before
ClientSend ==
  /\ pc = "blocked"
  /\ \E id \in DOMAIN socks :
        /\ socks[id].state # "closed" /\ ~socks[id].hup
        /\ socks[id].script # <<>> /\ socks[id].inq = <<>>
        /\ socks' = [socks EXCEPT ![id].inq = @ \o Head(socks[id].script),
                                  ![id].sent = @ \o Head(socks[id].script),
                                  ![id].script = Tail(@)]
  /\ UNCHANGED <<pvars, now, m_config, m_listenSockets, m_clients,
                 m_cgiFdToClient, m_pfds, pc, pollUntil, fdt, procs, fs,
                 uploadCounter>>

\* a client goes away
ClientHangup ==
  /\ pc = "blocked"
  /\ \E id \in DOMAIN socks :
        /\ socks[id].state = "established" /\ ~socks[id].hup
        /\ socks' = [socks EXCEPT ![id].hup = TRUE]
  /\ UNCHANGED <<pvars, now, m_config, m_listenSockets, m_clients,
                 m_cgiFdToClient, m_pfds, pc, pollUntil, fdt, procs, fs,
                 uploadCounter>>

\* a CGI child writes its next block to stdout; with the read end closed the
\* write kills it
ChildWrite ==
  /\ pc = "blocked"
  /\ \E pid \in DOMAIN procs :
        /\ procs[pid].state = "running" /\ procs[pid].prog # <<>>
        /\ procs' = IF procs[pid].stdoutRead
                    THEN [procs EXCEPT ![pid].out = @ \o Head(procs[pid].prog),
                                       ![pid].written =
                                          @ \o Head(procs[pid].prog),
                                       ![pid].prog = Tail(@)]
                    ELSE [procs EXCEPT ![pid].state = "zombie"]
  /\ UNCHANGED <<pvars, now, m_config, m_listenSockets, m_clients,
                 m_cgiFdToClient, m_pfds, pc, pollUntil, fdt, socks, fs,
                 uploadCounter>>

\* a CGI child exits, or dies of the SIGKILL it was sent
ChildExit ==
  /\ pc = "blocked"
  /\ \E pid \in DOMAIN procs :
        /\ Alive(World, pid)
        /\ procs' = [procs EXCEPT ![pid].state = "zombie"]
  /\ UNCHANGED <<pvars, now, m_config, m_listenSockets, m_clients,
                 m_cgiFdToClient, m_pfds, pc, pollUntil, fdt, socks, fs,
                 uploadCounter>>

\* std::time(0) moves on
Tick ==
  /\ pc = "blocked"
  /\ now < MaxTime
  /\ now' = now + 1
  /\ UNCHANGED <<pvars, m_config, m_listenSockets, m_clients, m_cgiFdToClient,
                 m_pfds, pc, pollUntil, fdt, socks, procs, fs, uploadCounter>>

-----------------------------------------------------------------------------
(* Specifications *)

\* the parser harness at rest
ParserIdle ==
  /\ pstream = <<>>
  /\ pspec = [kind |-> "none", name |-> <<>>, body |-> <<>>, chunks |-> <<>>,
              upper |-> FALSE, raw |-> <<>>]
  /\ pfed = 0
  /\ parser = NewParser
  /\ preq = NewRequest
  /\ pret = FALSE
  /\ pcalls = 0
  /\ FdIdle

\* the server after Server::Init
ServerStarted ==
  /\ now = 1
  /\ m_listenSockets = Listening.vec
  /\ m_clients = Empty
  /\ m_cgiFdToClient = Empty
  /\ m_pfds = <<>>
  /\ pc = "poll"
  /\ pollUntil = 0
  /\ fdt = Listening.fdt
  /\ socks = Empty
  /\ procs = Empty
  /\ fs = InitFs
  /\ uploadCounter = [bin |-> 0, dat |-> 0]
  /\ FdIdle

(* The parser on its own: Parse is called on ever longer prefixes of a stream *)

InitParser ==
  /\ m_config = TheConfig
  /\ ServerStarted
  /\ \E sp \in RequestSpecs, t \in Tails :
       /\ pspec = sp
       /\ pstream = Encode(sp) \o t
  /\ pfed = 0
  /\ parser = NewParser
  /\ preq = NewRequest
  /\ pret = FALSE
  /\ pcalls = 0

\* one call of Parse on the buffer grown to its first k bytes
Feed ==
  \E k \in (pfed + 1)..Len(pstream) :
    \E r \in {Parse(SubSeq(pstream, 1, k), parser, preq)} :
      /\ pfed' = k
      /\ parser' = r.p
      /\ preq' = r.req
      /\ pret' = r.ret
      /\ pcalls' = Min(pcalls + 1, MaxCalls)
      /\ UNCHANGED <<pstream, pspec, svars>>

\* Reset, as the loop does it after a response: the consumed bytes are
\* erased from the buffer and parser and request start afresh
ResetParser ==
  /\ parser.m_state = kStateDone
  /\ Consumed(parser) < Len(pstream)
  /\ pstream' = SubStrFrom(pstream, Consumed(parser))
  /\ pspec' = [kind |-> "raw", name |-> <<>>, body |-> <<>>, chunks |-> <<>>,
               upper |-> FALSE, raw |-> pstream']
  /\ pfed' = 0
  /\ parser' = NewParser
  /\ preq' = NewRequest
  /\ pret' = FALSE
  /\ pcalls' = 0
  /\ UNCHANGED svars

NextParser == Feed \/ ResetParser

SpecParser == InitParser /\ [][NextParser]_vars

(* The server *)

Init ==
  /\ ParserIdle
  /\ m_config = TheConfig
  /\ ServerStarted

Next ==
  \/ PollOnce
  \/ PollReturn
  \/ Sweep
  \/ DispatchCgi
  \/ DispatchAccept
  \/ DispatchClient
  \/ ClientConnect
  \/ ClientSend
  \/ ClientHangup
  \/ ChildWrite
  \/ ChildExit
  \/ Tick

Spec == Init /\ [][Next]_vars

\* one step of the loop of main, which runs until the process is stopped
ServerStep ==
  PollOnce \/ PollReturn \/ Sweep \/ DispatchCgi \/ DispatchAccept
  \/ DispatchClient

\* The server with a clock that keeps going and a loop that keeps running:
\* poll returns when its timeout has run out at the latest, so that with the
\* clock advancing a step of the loop is enabled again and again, and weak
\* fairness of ServerStep is that the loop takes steps for ever.
SpecFair == Spec /\ WF_vars(Tick) /\ []<><<ServerStep>>_vars

-----------------------------------------------------------------------------
(* The CGI controller on its own: a connection whose request has started a  *)
(* CGI child, the child, and the calls the loop makes for the connection    *)
(* when one of its pipes is ready or its socket is writable.                *)

cgiHead == <<"S", "t", "a", "t", "u", "s", ":", " ", "2", "0", "1", " ", "M", "a", "d", "e", CR, LF, CR, LF>>
reqCgiPost == <<"P", "O", "S", "T", " ", "/", "x", ".", "c", " ", "H", "T", "T", "P", "/", "1", ".", "1", CR, LF, "C", "o", "n", "t", "e", "n", "t", "-", "L", "e", "n", "g", "t", "h", ":", " ", "2", CR, LF, CR, LF, "W", "i">>

\* the scripts: header block and body in two writes, in one write, a header
\* block that comes in two writes, output without a header block, no output
CgiScripts ==
  {<<cgiHead, <<"o", "k">>>>, <<cgiHead \o <<"o", "k">>>>, <<<<"X", ":", " ", "y", CR, LF>>, <<CR, LF, "k", "o">>>>,
   <<<<"o", "o", "p", "s">>>>, <<>>}

CgiRequests == {reqCgi, reqCgiPost}

\* a client has connected to the first listening socket and sent req
Arrived(req) ==
  [m_clients |-> Empty, m_cgiFdToClient |-> Empty, fdt |-> Listening.fdt,
   socks |-> Put(Empty, 1, [state |-> "backlog", port |-> 1, script |-> <<>>,
                            sent |-> req, inq |-> req, hup |-> FALSE,
                            wire |-> <<>>]),
   procs |-> Empty, fs |-> InitFs, uploadCounter |-> [bin |-> 0, dat |-> 0]]

\* the server has accepted the client and read the request: AcceptNew, then
\* HandleReadable with a fork that succeeds
Started(req, prog) ==
  HandleReadable(AcceptNew(Arrived(req), Listening.vec[1], 1),
                 LowestFree(Listening.fdt), 1, TRUE, prog, TRUE)

InitCgi ==
  /\ ParserIdle
  /\ m_config = TheConfig
  /\ now = 1
  /\ m_listenSockets = Listening.vec
  /\ m_pfds = <<>>
  /\ pc = "blocked"
  /\ pollUntil = 0
  /\ \E req \in CgiRequests, prog \in CgiScripts :
        /\ m_clients = Started(req, prog).m_clients
        /\ m_cgiFdToClient = Started(req, prog).m_cgiFdToClient
        /\ fdt = Started(req, prog).fdt
        /\ socks = Started(req, prog).socks
        /\ procs = Started(req, prog).procs
        /\ fs = Started(req, prog).fs
        /\ uploadCounter = Started(req, prog).uploadCounter

\* the pipes of the connection under k that BuildPollFds polls, with the
\* events it asks for
CgiPollFds(k) ==
  (IF m_clients[k].m_cgiActive /\ m_clients[k].m_cgiInFd >= 0
   THEN {PollFd(m_clients[k].m_cgiInFd, {POLLOUT})} ELSE {})
  \cup (IF m_clients[k].m_cgiActive /\ m_clients[k].m_cgiOutFd >= 0
        THEN {PollFd(m_clients[k].m_cgiOutFd, {POLLIN})} ELSE {})

\* a pipe of a connection is ready and the loop runs HandleCgiEvent for the
\* connection
CgiEvent ==
  /\ \E k \in DOMAIN m_clients :
       \E p \in CgiPollFds(k) :
          /\ Revents(p) # {}
          /\ \E late \in BOOLEAN :
                Commit(CgiEventOn(World, k, p.fd, Revents(p), late))
  /\ UNCHANGED <<pvars, now, m_config, m_listenSockets, m_pfds, pc, pollUntil>>

\* the socket of a connection with write interest is writable and the loop
\* runs HandleWritable for it
CgiFlush ==
  /\ \E k \in DOMAIN m_clients :
        /\ m_clients[k].m_wantWrite
        /\ POLLOUT \in Revents(PollFd(k, {POLLIN, POLLOUT}))
        /\ \E n \in {1, MaxSend} : Commit(HandleWritable(World, k, n))
  /\ UNCHANGED <<pvars, now, m_config, m_listenSockets, m_pfds, pc, pollUntil>>

NextCgi == CgiEvent \/ CgiFlush \/ ChildWrite \/ ChildExit

SpecCgi == InitCgi /\ [][NextCgi]_vars

-----------------------------------------------------------------------------
(* The parser on long header blocks: Parse is called as the buffer grows    *)
(* towards and past the limit of the header block                           *)

\* the longest buffer without a header terminator that is offered
MaxUnterminated == 9000

\* a request line and the beginning of a header line
LongHead == GetLine \o <<"X", ":", " ">>

\* a header block whose terminator is at offset n
LongHeader(n) ==
  LongHead \o [i \in 1..(n - Len(LongHead)) |-> "a"] \o CRLF \o CRLF

\* a header line that does not end
Unterminated == LongHead \o [i \in 1..(MaxUnterminated - Len(LongHead)) |-> "a"]

\* where the terminators of the header blocks are, around the limit
HeaderEnds ==
  {MaxHeaderBytes - 1, MaxHeaderBytes, MaxHeaderBytes + 1, MaxHeaderBytes + 4}

LongStreams == {LongHeader(n) : n \in HeaderEnds} \cup {Unterminated}

\* the sizes to which the buffer has grown when Parse is called
CutPoints ==
  {Len(GetLine), Len(LongHead), MaxHeaderBytes \div 2}
  \cup (MaxHeaderBytes - 2)..(MaxHeaderBytes + 8)
  \cup {MaxUnterminated}

InitLimit ==
  /\ m_config = TheConfig
  /\ ServerStarted
  /\ pstream \in LongStreams
  /\ pspec = [kind |-> "raw", name |-> <<>>, body |-> <<>>, chunks |-> <<>>,
              upper |-> FALSE, raw |-> <<>>]
  /\ pfed = 0
  /\ parser = NewParser
  /\ preq = NewRequest
  /\ pret = FALSE
  /\ pcalls = 0

\* one call of Parse on the buffer grown to one of the sizes
FeedBlock ==
  \E k \in {c \in CutPoints : pfed < c /\ c <= Len(pstream)} :
    \E r \in {Parse(SubSeq(pstream, 1, k), parser, preq)} :
      /\ pfed' = k
      /\ parser' = r.p
      /\ preq' = r.req
      /\ pret' = r.ret
      /\ pcalls' = Min(pcalls + 1, MaxCalls)
      /\ UNCHANGED <<pstream, pspec, svars>>

NextLimit == FeedBlock

SpecLimit == InitLimit /\ [][NextLimit]_vars

-----------------------------------------------------------------------------
(* The request handler on its own: one client, one request, and the calls   *)
(* the loop makes for the connection, under a configuration that has every  *)
(* kind of route                                                            *)

sHTTP10 == <<"H", "T", "T", "P", "/", "1", ".", "0">>
sPUT == <<"P", "U", "T">>

\* the routes of the first virtual host: the site with its CGI scripts, a
\* listed directory with a method filter, a second route of the same path, a
\* route below it, a redirect and an upload route
RoutesA ==
  <<Route(<<"/">>, <<"/", "w">>, <<"i">>, <<>>, <<".", "c">>, FALSE, FALSE),
    [Route(<<"/", "s">>, <<"/", "w">>, <<>>, <<>>, <<>>, FALSE, TRUE)
       EXCEPT !.methods = <<sGET, sHEAD, sDELETE>>],
    Route(<<"/", "s">>, <<"/", "v">>, <<>>, <<>>, <<>>, FALSE, FALSE),
    Route(<<"/", "s", "/", "t">>, <<"/", "w">>, <<"i">>, <<>>, <<>>, FALSE, FALSE),
    Route(<<"/", "r">>, <<"/", "w">>, <<>>, <<"/">>, <<>>, FALSE, FALSE),
    Route(<<"/", "u">>, <<"/", "w">>, <<>>, <<>>, <<>>, TRUE, FALSE)>>

\* the routes of the second: a directory that is not listed, and no route
\* for anything else
RoutesB == <<Route(<<"/", "s">>, <<"/", "w">>, <<>>, <<>>, <<>>, FALSE, FALSE)>>

\* two virtual hosts; the first has error pages, the second has two names
HandlerConfig ==
  <<[ServerConfig(<<"a">>, 1, 1, 1, 2)
       EXCEPT !.errorPageRoot = <<"/", "e">>, !.routes = RoutesA],
    [ServerConfig(<<"b">>, 1, 3, 1, 1)
       EXCEPT !.serverNames = <<<<"b">>, <<"U", "p">>>>, !.routes = RoutesB]>>

\* the files: the site, and error pages for 403, 404 and 405, one of them
\* empty
HandlerFs ==
  [p \in {<<"/", "w">>, <<"/", "w", "/", "i">>, <<"/", "w", "/", "x", ".", "c">>, <<"/", "e">>, <<"/", "e", "/", "4", "0", "3", ".", "h", "t", "m", "l">>,
          <<"/", "e", "/", "4", "0", "4", ".", "h", "t", "m", "l">>, <<"/", "e", "/", "4", "0", "5", ".", "h", "t", "m", "l">>} |->
     IF p \in {<<"/", "w">>, <<"/", "e">>} THEN Dir
     ELSE IF p = <<"/", "w", "/", "i">> THEN File(<<"h", "i", LF>>)
     ELSE IF p = <<"/", "w", "/", "x", ".", "c">> THEN File(<<"#", "!">>)
     ELSE IF p = <<"/", "e", "/", "4", "0", "3", ".", "h", "t", "m", "l">> THEN File(<<>>)
     ELSE IF p = <<"/", "e", "/", "4", "0", "4", ".", "h", "t", "m", "l">> THEN File(<<"<", "p", ">", "4", "0", "4", "<", "/", "p", ">">>)
     ELSE File(<<"<", "p", ">", "4", "0", "5", "<", "/", "p", ">">>)]

\* a request as the client writes it
Req(method, uri, version, connection, host, body) ==
  [method |-> method, uri |-> uri, version |-> version,
   connection |-> connection, host |-> host, body |-> body]

RequestBytes(r) ==
  r.method \o <<" ">> \o r.uri \o <<" ">> \o r.version \o CRLF
  \o (IF r.host = <<>> THEN <<>> ELSE <<"H", "o", "s", "t", ":", " ">> \o r.host \o CRLF)
  \o (IF r.connection = <<>> THEN <<>>
      ELSE <<"C", "o", "n", "n", "e", "c", "t", "i", "o", "n", ":", " ">> \o r.connection \o CRLF)
  \o (IF r.body = <<>> THEN <<>>
      ELSE <<"C", "o", "n", "t", "e", "n", "t", "-", "L", "e", "n", "g", "t", "h", ":", " ">> \o Dec(Len(r.body)) \o CRLF)
  \o CRLF \o r.body

Methods == {sGET, sHEAD, sPOST, sDELETE, sPUT}

Uris ==
  {<<"/">>, <<"/", "n">>, <<"/", "x", ".", "c">>, <<"/", "s">>, <<"/", "s", "/", "i">>, <<"/", "s", "/", "t">>, <<"/", "s", "/", ".", ".">>, <<"/", ".", ".">>,
   <<"/", "r">>, <<"/", "r", "/", ".", ".">>, <<"/", "u">>}

\* values of the Connection header; none is <<>>
Connections ==
  {<<>>, sClose, <<"C", "L", "O", "S", "E">>, sKeepAlive, <<"K", "E", "E", "P", "-", "A", "L", "I", "V", "E">>, <<"u", "p", "g", "r", "a", "d", "e">>}

\* values of the Host header; none is <<>>
Hosts == {<<>>, <<"a">>, <<"b">>, <<"B">>, <<"b", ":", "8", "0">>, <<"u", "p">>, <<"U", "p">>, <<"z">>}

\* a body within the limit of the servers and one above it
SmallBody == <<"W", "i">>
LargeBody == <<"0", "1", "2", "3", "4", "5", "6", "7", "8", "9", "a", "b", "c", "d", "e", "f", "g">>

\* the requests: every method on every target of either host; the versions
\* and Connection headers on the targets that can succeed; every Host; and
\* bodies on the targets that take or refuse them
HandlerRequests ==
  {Req(m, u, sHTTP11, <<>>, h, <<>>) :
     m \in Methods, u \in Uris, h \in {<<>>, <<"b">>}}
  \cup {Req(m, u, v, c, <<>>, <<>>) :
          m \in {sGET, sHEAD, sDELETE}, u \in {<<"/">>, <<"/", "s">>, <<"/", "x", ".", "c">>, <<"/", "n">>},
          v \in {sHTTP10, sHTTP11}, c \in Connections}
  \cup {Req(sGET, <<"/", "s">>, sHTTP11, <<>>, h, <<>>) : h \in Hosts}
  \cup {Req(m, u, v, c, <<>>, b) :
          m \in {sPOST, sHEAD}, u \in {<<"/">>, <<"/", "u">>, <<"/", ".", ".">>, <<"/", "x", ".", "c">>},
          v \in {sHTTP10, sHTTP11}, c \in {<<>>, sClose, sKeepAlive},
          b \in {SmallBody, LargeBody}}

\* the programs of the CGI script: a success and a failure it reports itself
HandlerScripts ==
  {<<<<"S", "t", "a", "t", "u", "s", ":", " ", "2", "0", "1", " ", "M", "a", "d", "e", CR, LF, CR, LF, "o", "k">>>>, <<<<"S", "t", "a", "t", "u", "s", ":", " ", "4", "0", "4", " ", "N", "o", CR, LF, CR, LF, "n", "o">>>>}

\* a client has connected to the first listening socket and sent the request
InitHandler ==
  /\ ParserIdle
  /\ m_config = HandlerConfig
  /\ now = 1
  /\ m_listenSockets = Listening.vec
  /\ m_pfds = <<>>
  /\ pc = "blocked"
  /\ pollUntil = 0
  /\ m_clients = Empty
  /\ m_cgiFdToClient = Empty
  /\ fdt = Listening.fdt
  /\ procs = Empty
  /\ fs = HandlerFs
  /\ uploadCounter = [bin |-> 0, dat |-> 0]
  /\ \E r \in HandlerRequests :
        socks = Put(Empty, 1, [state |-> "backlog", port |-> 1,
                               script |-> <<>>, sent |-> RequestBytes(r),
                               inq |-> RequestBytes(r), hup |-> FALSE,
                               wire |-> <<>>])

\* the listening socket is readable and the loop runs AcceptNew
HandlerAccept ==
  /\ \E i \in 1..Len(m_listenSockets) :
        /\ POLLIN \in Revents(PollFd(m_listenSockets[i], {POLLIN}))
        /\ Commit(AcceptNew(World, m_listenSockets[i], now))
  /\ UNCHANGED <<pvars, now, m_config, m_listenSockets, m_pfds, pc, pollUntil>>

\* the socket of a connection is readable and the loop runs HandleReadable
HandlerRead ==
  /\ \E k \in DOMAIN m_clients :
        /\ POLLIN \in Revents(PollFd(k, {POLLIN}))
        /\ \E forkOk \in BOOLEAN, prog \in HandlerScripts, osOk \in BOOLEAN :
              Commit(HandleReadable(World, k, now, forkOk, prog, osOk))
  /\ UNCHANGED <<pvars, now, m_config, m_listenSockets, m_pfds, pc, pollUntil>>

\* poll has returned and the loop sweeps the connections for timeouts
HandlerSweep ==
  /\ m_clients # Empty
  /\ \E dead \in BOOLEAN :
        Commit(SweepAll(World, SetToSeq(DOMAIN m_clients), now, dead))
  /\ UNCHANGED <<pvars, now, m_config, m_listenSockets, m_pfds, pc, pollUntil>>

NextHandler ==
  \/ HandlerAccept
  \/ HandlerRead
  \/ HandlerSweep
  \/ CgiEvent
  \/ CgiFlush
  \/ ChildWrite
  \/ ChildExit
  \/ Tick

SpecHandler == InitHandler /\ [][NextHandler]_vars
-----------------------------------------------------------------------------
(* Uploads on their own: one client posts a multipart/form-data body to a   *)
(* route with uploads, and the file system takes every write                *)

sBoundary == <<"B">>

\* one virtual host whose only route takes uploads into its root /w
UploadConfig ==
  <<[ServerConfig(<<"a">>, 1, 1, 1, 2)
       EXCEPT !.clientMaxBodySize = 4096,
              !.routes = <<Route(<<"/", "u">>, <<"/", "w">>, <<>>, <<>>, <<>>, TRUE,
                                 FALSE)>>]>>

UploadFs == [p \in {<<"/", "w">>} |-> Dir]

\* a part of a form: a field, or a file when it has a filename parameter
Part(name, hasFile, filename, content) ==
  [name |-> name, hasFile |-> hasFile, filename |-> filename,
   content |-> content]

\* a part as the client writes it, from its boundary line to the CRLF
\* before the next one
PartBytes(p) ==
  <<"-", "-">> \o sBoundary \o CRLF
  \o <<"C", "o", "n", "t", "e", "n", "t", "-", "D", "i", "s", "p", "o", "s", "i", "t", "i", "o", "n", ":", " ", "f", "o", "r", "m", "-", "d", "a", "t", "a", ";", " ", "n", "a", "m", "e", "=", "\"">> \o p.name \o <<"\"">>
  \o (IF p.hasFile THEN <<";", " ", "f", "i", "l", "e", "n", "a", "m", "e", "=", "\"">> \o p.filename \o <<"\"">>
      ELSE <<>>)
  \o CRLF \o CRLF \o p.content \o CRLF

RECURSIVE MultipartBody(_)
MultipartBody(parts) ==
  IF parts = <<>> THEN <<"-", "-">> \o sBoundary \o <<"-", "-">> \o CRLF
  ELSE PartBytes(Head(parts)) \o MultipartBody(Tail(parts))

\* contents without the boundary delimiter --B: empty, with and of CRLFs,
\* with dashes and with a beginning of the delimiter
Contents ==
  {<<>>, <<"x">>, <<"x", CR, LF>>, <<CR, LF, CR, LF>>, <<"-", "-">>, <<CR, LF, "-", "B">>}

FileParts ==
  {Part(<<"n">>, TRUE, f, c) : f \in {<<"f">>, <<"d", "/", "g">>}, c \in Contents}

FieldParts ==
  {Part(n, FALSE, <<>>, c) :
     n \in {<<"n">>, <<"a", ";", " ", "f", "i", "l", "e", "n", "a", "m", "e", "=", "b">>}, c \in {<<>>, <<"x">>}}

\* the forms: one part, or two that do not name the same file
Forms ==
  {<<p>> : p \in FileParts \cup FieldParts}
  \cup {f \in (FileParts \cup FieldParts) \X (FileParts \cup FieldParts) :
          ~(f[1].hasFile /\ f[2].hasFile /\ f[1].filename = f[2].filename)}

UploadBytes(parts) ==
  <<"P", "O", "S", "T", " ", "/", "u", " ", "H", "T", "T", "P", "/", "1", ".", "1", CR, LF>>
  \o <<"C", "o", "n", "t", "e", "n", "t", "-", "T", "y", "p", "e", ":", " ", "m", "u", "l", "t", "i", "p", "a", "r", "t", "/", "f", "o", "r", "m", "-", "d", "a", "t", "a", ";", " ", "b", "o", "u", "n", "d", "a", "r", "y", "=">> \o sBoundary \o CRLF
  \o <<"C", "o", "n", "t", "e", "n", "t", "-", "L", "e", "n", "g", "t", "h", ":", " ">> \o Dec(Len(MultipartBody(parts))) \o CRLF
  \o CRLF \o MultipartBody(parts)

\* a client has connected and sent the form
InitUpload ==
  /\ ParserIdle
  /\ m_config = UploadConfig
  /\ now = 1
  /\ m_listenSockets = Listening.vec
  /\ m_pfds = <<>>
  /\ pc = "blocked"
  /\ pollUntil = 0
  /\ m_clients = Empty
  /\ m_cgiFdToClient = Empty
  /\ fdt = Listening.fdt
  /\ procs = Empty
  /\ fs = UploadFs
  /\ uploadCounter = [bin |-> 0, dat |-> 0]
  /\ \E parts \in Forms :
        socks = Put(Empty, 1, [state |-> "backlog", port |-> 1,
                               script |-> <<>>, sent |-> UploadBytes(parts),
                               inq |-> UploadBytes(parts), hup |-> FALSE,
                               wire |-> <<>>])

\* the socket of the connection is readable and the loop runs
\* HandleReadable; fopen succeeds
UploadRead ==
  /\ \E k \in DOMAIN m_clients :
        /\ POLLIN \in Revents(PollFd(k, {POLLIN}))
        /\ Commit(HandleReadable(World, k, now, TRUE, <<>>, TRUE))
  /\ UNCHANGED <<pvars, now, m_config, m_listenSockets, m_pfds, pc, pollUntil>>

NextUpload == HandlerAccept \/ UploadRead

SpecUpload == InitUpload /\ [][NextUpload]_vars
-----------------------------------------------------------------------------
(* The descriptor handle on its own: FD objects are constructed, copied,    *)
(* assigned, reset, released and destroyed over a small descriptor table    *)

MaxHandles == 3
MaxDescriptor == 4

HandleIds == 1..MaxHandles
Descriptors == 0..MaxDescriptor

\* the lowest descriptor that is not open, -1 when the table is full
FreeDescriptor(k) ==
  IF Descriptors \ k.open = {} THEN -1
  ELSE CHOOSE n \in Descriptors \ k.open :
         \A m \in Descriptors \ k.open : n <= m

\* ::close: a descriptor that is not open counts as a bad close
KernelClose(k, fd) ==
  IF fd \in k.open THEN [k EXCEPT !.open = @ \ {fd}]
  ELSE [k EXCEPT !.badCloses = 1]

\* ::dup: the kernel and the new descriptor, -1 when it grants none
KernelDup(k, fd, granted) ==
  IF granted /\ fd \in k.open /\ FreeDescriptor(k) # -1
  THEN [k |-> [k EXCEPT !.open = @ \cup {FreeDescriptor(k)}],
        fd |-> FreeDescriptor(k)]
  ELSE [k |-> k, fd |-> -1]

\* FD::closeIfValid: the kernel after it; m_fd is -1 afterwards
closeIfValid(k, fd) == IF fd >= 0 THEN KernelClose(k, fd) ELSE k

\* a copy that takes the descriptor of the other object
CopyFdShared(k, otherFd, granted) == [k |-> k, fd |-> otherFd]

\* FD::FD(const FD &other): the kernel and the m_fd of the copy
CopyFd(k, otherFd, granted) ==
  IF otherFd >= 0 THEN KernelDup(k, otherFd, granted) ELSE [k |-> k, fd |-> -1]

\* FD::operator=: the kernel and the m_fd of the object assigned to
AssignFd(k, ownFd, otherFd, same, granted) ==
  IF same THEN [k |-> k, fd |-> ownFd]
  ELSE CopyFd(closeIfValid(k, ownFd), otherFd, granted)

\* FD::reset
reset(k, ownFd, fd) ==
  IF ownFd = fd THEN [k |-> k, fd |-> ownFd]
  ELSE [k |-> closeIfValid(k, ownFd), fd |-> fd]

InitFd ==
  /\ ParserIdle
  /\ m_config = TheConfig
  /\ ServerStarted

\* what the FD harness leaves alone
rest == <<pstream, pspec, pfed, parser, preq, pret, pcalls, now, m_config,
          m_listenSockets, m_clients, m_cgiFdToClient, m_pfds, pc, pollUntil,
          fdt, socks, procs, fs, uploadCounter>>

\* socket(), accept() or pipe() returns a descriptor no handle owns yet
FdOpen ==
  /\ FreeDescriptor(kernel) # -1
  /\ kernel' = [kernel EXCEPT !.open = @ \cup {FreeDescriptor(kernel)},
                              !.fresh = @ \cup {FreeDescriptor(kernel)}]
  /\ UNCHANGED <<handles, rest>>

\* FD(): a handle that owns nothing
FdDefault ==
  /\ \E h \in HandleIds \ DOMAIN handles : handles' = Put(handles, h, -1)
  /\ UNCHANGED <<kernel, rest>>

\* explicit FD(int fd), with a descriptor just obtained
FdAdopt ==
  /\ \E h \in HandleIds \ DOMAIN handles, fd \in kernel.fresh :
        /\ handles' = Put(handles, h, fd)
        /\ kernel' = [kernel EXCEPT !.fresh = @ \ {fd}]
  /\ UNCHANGED rest

\* FD(const FD &other)
FdCopy ==
  /\ \E h \in HandleIds \ DOMAIN handles, o \in DOMAIN handles,
        granted \in BOOLEAN :
        /\ handles' = Put(handles, h, CopyFd(kernel, handles[o], granted).fd)
        /\ kernel' = CopyFd(kernel, handles[o], granted).k
  /\ UNCHANGED rest

\* operator=, also of an object to itself
FdAssign ==
  /\ \E h \in DOMAIN handles, o \in DOMAIN handles, granted \in BOOLEAN :
        /\ handles' = [handles EXCEPT ![h] =
                         AssignFd(kernel, handles[h], handles[o], h = o,
                                  granted).fd]
        /\ kernel' = AssignFd(kernel, handles[h], handles[o], h = o,
                              granted).k
  /\ UNCHANGED rest

\* reset(fd), with -1, the descriptor the handle owns, or one that no other
\* handle owns: one just obtained or one released to the caller
FdReset ==
  /\ \E h \in DOMAIN handles :
        \E fd \in {-1, handles[h]} \cup kernel.fresh \cup kernel.released :
           /\ handles' = [handles EXCEPT ![h] =
                            reset(kernel, handles[h], fd).fd]
           /\ kernel' = [reset(kernel, handles[h], fd).k
                           EXCEPT !.fresh = @ \ {fd}, !.released = @ \ {fd}]
  /\ UNCHANGED rest

\* release(): the caller holds the descriptor from now on
FdRelease ==
  /\ \E h \in DOMAIN handles :
        /\ handles' = [handles EXCEPT ![h] = -1]
        /\ kernel' = [kernel EXCEPT !.released =
                        IF handles[h] >= 0 THEN @ \cup {handles[h]} ELSE @]
  /\ UNCHANGED rest

\* ~FD()
FdDestroy ==
  /\ \E h \in DOMAIN handles :
        /\ handles' = Del(handles, h)
        /\ kernel' = closeIfValid(kernel, handles[h])
  /\ UNCHANGED rest

\* the caller closes a descriptor that was released to it
CallerClose ==
  /\ \E fd \in kernel.released :
        kernel' = [KernelClose(kernel, fd) EXCEPT !.released = @ \ {fd}]
  /\ UNCHANGED <<handles, rest>>

NextFd ==
  \/ FdOpen
  \/ FdDefault
  \/ FdAdopt
  \/ FdCopy
  \/ FdAssign
  \/ FdReset
  \/ FdRelease
  \/ FdDestroy
  \/ CallerClose

SpecFd == InitFd /\ [][NextFd]_vars
-----------------------------------------------------------------------------
(* Shutdown: main leaves its loop and calls Server::Shutdown, here while a  *)
(* connection has a CGI child                                               *)

\* m_clients.clear(): every entry is erased and its FD handle closes m_fd
RECURSIVE ClearClients(_, _)
ClearClients(w, keys) ==
  IF keys = <<>> THEN w
  ELSE ClearClients(CloseConnection(w, Head(keys)), Tail(keys))

\* m_listenSockets.clear(): every FD of the vector closes its descriptor
RECURSIVE ClearListening(_, _)
ClearListening(w, vec) ==
  IF vec = <<>> THEN w
  ELSE ClearListening(close(w, Head(vec)), Tail(vec))

\* Server::Shutdown
Shutdown(w, vec) ==
  ClearListening(ClearClients(w, SetToSeq(DOMAIN w.m_clients)), vec)

\* main is in its loop
Running == pc # "done"

\* g_running is 0 when main tests it: Shutdown, and main returns
ShutdownStep ==
  /\ Running
  /\ Commit(Shutdown(World, m_listenSockets))
  /\ m_listenSockets' = <<>>
  /\ pc' = "done"
  /\ UNCHANGED <<pvars, now, m_config, m_pfds, pollUntil>>

RunCgiEvent == Running /\ CgiEvent

RunCgiFlush == Running /\ CgiFlush

NextStop ==
  \/ RunCgiEvent
  \/ RunCgiFlush
  \/ ChildWrite
  \/ ChildExit
  \/ ShutdownStep

SpecStop == InitCgi /\ [][NextStop]_vars

-----------------------------------------------------------------------------
(* A peer that ends its stream: the server of Spec with one client that
   sends what it has to send and then shuts down its side of the connection,
   so that the socket is readable and recv returns 0 *)

ScriptsEof ==
  {<<>>,
   <<reqGet>>,
   <<<<"G", "E", "T", " ", "/", " ", "H", "T", "T", "P", "/", "1", ".", "1", CR, LF>>>>}

\* a client connects
ClientConnectEof ==
  /\ pc = "blocked"
  /\ Cardinality(DOMAIN socks) < MaxClients
  /\ \E script \in ScriptsEof :
        socks' = Put(socks, Cardinality(DOMAIN socks) + 1,
                     [state |-> "backlog",
                      port |-> PortOf(Cardinality(DOMAIN socks) + 1),
                      script |-> script,
                      sent |-> <<>>, inq |-> <<>>, hup |-> FALSE,
                      wire |-> <<>>])
  /\ UNCHANGED <<pvars, now, m_config, m_listenSockets, m_clients,
                 m_cgiFdToClient, m_pfds, pc, pollUntil, fdt, procs, fs,
                 uploadCounter>>

\* a client that has sent all it had to send shuts down its side
ClientShutdown ==
  /\ pc = "blocked"
  /\ \E id \in DOMAIN socks :
        /\ socks[id].state = "established" /\ ~socks[id].hup
        /\ socks[id].script = <<>>
        /\ socks' = [socks EXCEPT ![id].state = "shut"]
  /\ UNCHANGED <<pvars, now, m_config, m_listenSockets, m_clients,
                 m_cgiFdToClient, m_pfds, pc, pollUntil, fdt, procs, fs,
                 uploadCounter>>

NextEof ==
  \/ PollOnce
  \/ PollReturn
  \/ Sweep
  \/ DispatchAccept
  \/ DispatchClient
  \/ ClientConnectEof
  \/ ClientSend
  \/ ClientShutdown
  \/ Tick

\* one step of the loop of main while no CGI is in progress
LoopStep == PollOnce \/ PollReturn \/ Sweep \/ DispatchAccept \/ DispatchClient

\* the clock keeps going and the loop keeps running, as in SpecFair
SpecEof ==
  Init /\ [][NextEof]_vars /\ WF_vars(Tick) /\ []<><<LoopStep>>_vars

-----------------------------------------------------------------------------
(* Requests with a query: the handler harness on targets that carry a
   "?query" after the path *)

QueryUris ==
  {<<"/", "x", ".", "c">>, <<"/", "x", ".", "c", "?">>, <<"/", "x", ".", "c", "?", "q">>, <<"/", "x", ".", "c", "?", "q", "=", "1">>, <<"/", "x", ".", "c", "?", "a", ".", "c">>,
   <<"/", "s", "/", "i">>, <<"/", "s", "/", "i", "?", "q">>, <<"/", "s", "/", "i", "?", "x", ".", "c">>, <<"/", "n", "?", "q">>}

QueryRequests ==
  {Req(m, u, sHTTP11, <<>>, h, <<>>) :
     m \in {sGET, sHEAD, sPOST}, u \in QueryUris, h \in {<<>>, <<"b">>}}

\* a client has connected to the first listening socket and sent the request
InitQuery ==
  /\ ParserIdle
  /\ m_config = HandlerConfig
  /\ now = 1
  /\ m_listenSockets = Listening.vec
  /\ m_pfds = <<>>
  /\ pc = "blocked"
  /\ pollUntil = 0
  /\ m_clients = Empty
  /\ m_cgiFdToClient = Empty
  /\ fdt = Listening.fdt
  /\ procs = Empty
  /\ fs = HandlerFs
  /\ uploadCounter = [bin |-> 0, dat |-> 0]
  /\ \E r \in QueryRequests :
        socks = Put(Empty, 1, [state |-> "backlog", port |-> 1,
                               script |-> <<>>, sent |-> RequestBytes(r),
                               inq |-> RequestBytes(r), hup |-> FALSE,
                               wire |-> <<>>])

NextQuery ==
  \/ HandlerAccept
  \/ HandlerRead
  \/ ChildWrite
  \/ ChildExit

SpecQuery == InitQuery /\ [][NextQuery]_vars
-----------------------------------------------------------------------------
(* Properties of the connection engine *)

IsPrefix(a, b) == Len(a) <= Len(b) /\ a = SubSeq(b, 1, Len(a))
IsSuffix(a, b) == Len(a) <= Len(b) /\ a = SubSeq(b, Len(b) - Len(a) + 1, Len(b))

\* the connection that holds the CGI child pid
CgiOwner(pid) == \E k \in DOMAIN m_clients : m_clients[k].m_cgiPid = pid

\* C1: CGI fd cleanup.  Once a connection has left the connection table, no
\* pipe end of its CGI child is open, none is registered in the pipe-fd map
\* and its child is not left unreaped: every open pipe end, every entry of
\* the map and every child that was not waited for belongs to a connection
\* that is still in the table.
C1_CgiFdCleanup ==
  /\ \A fd \in DOMAIN fdt :
        fdt[fd].kind \in {"stdin", "stdout"} => CgiOwner(fdt[fd].ref)
  /\ \A fd \in DOMAIN m_cgiFdToClient :
        \E k \in DOMAIN m_clients :
           fd \in {m_clients[k].m_cgiInFd, m_clients[k].m_cgiOutFd}
  /\ \A pid \in DOMAIN procs : procs[pid].state # "reaped" => CgiOwner(pid)

\* a step in which the handler starts a CGI child for the connection under k
StartsCgi(k) ==
  /\ k \in DOMAIN m_clients /\ k \in DOMAIN m_clients'
  /\ ~m_clients[k].m_cgiActive
  /\ m_clients'[k].m_cgiActive

\* C2: CGI suspension.  When the handler has started a CGI child, the
\* connection is in the table in phase HANDLE with an empty outbound buffer
\* and no write interest; and as long as nothing has been queued for it,
\* a step leaves it in the table, in that phase and without write interest.
C2_CgiSuspends ==
  [][\A k \in DOMAIN m_clients :
        /\ StartsCgi(k) =>
              /\ m_clients'[k].m_phase = kPhaseHandle
              /\ m_clients'[k].m_writeBuf = <<>>
              /\ ~m_clients'[k].m_wantWrite
        /\ (/\ m_clients[k].m_cgiActive
            /\ m_clients[k].m_phase = kPhaseHandle
            /\ m_clients[k].m_writeBuf = <<>>) =>
              /\ k \in DOMAIN m_clients'
              /\ \/ m_clients'[k].m_writeBuf # <<>>
                 \/ /\ m_clients'[k].m_phase = kPhaseHandle
                    /\ ~m_clients'[k].m_wantWrite]_vars

\* C3: Sequential service.  While a response is queued or partly sent, a
\* step leaves the parser and the stored request of the connection as they
\* are, unless it sends the last of the response and resets both.
C3_NoParseBeforeSent ==
  [][\A k \in DOMAIN m_clients \cap DOMAIN m_clients' :
        m_clients[k].m_writeBuf # <<>> =>
           \/ /\ m_clients'[k].m_parser = m_clients[k].m_parser
              /\ m_clients'[k].m_request = m_clients[k].m_request
           \/ /\ m_clients'[k].m_writeBuf = <<>>
              /\ m_clients'[k].m_parser = NewParser
              /\ m_clients'[k].m_request = NewRequest]_vars

\* the response to GET / with the connection kept alive
ResponseToGet ==
  buildResponse(200, rOK, InitFs[<<"/", "w", "/", "i">>].data, guessType(<<"/", "w", "/", "i">>), TRUE,
                FALSE)

\* the client has sent two GET requests back to back and nothing after them
SentTwo(id) ==
  /\ id \in DOMAIN socks
  /\ socks[id].sent = reqGet \o reqGet
  /\ socks[id].script = <<>>

\* both were answered, in order, each response whole, the first keep-alive
AnsweredTwo(id) ==
  /\ id \in DOMAIN socks
  /\ socks[id].wire = ResponseToGet \o ResponseToGet

\* the client has gone away
HungUp(id) == id \in DOMAIN socks /\ socks[id].hup

\* C4: Keep-alive and pipelining.  When two complete requests have arrived
\* concatenated on a connection and nothing is sent after them, then, unless
\* the client goes away, both are eventually answered: the peer has received
\* the first response whole, with Connection: keep-alive, and after it the
\* second.
C4_PipelinedBothAnswered ==
  \A id \in 1..MaxClients :
     [](SentTwo(id) => <>(AnsweredTwo(id) \/ HungUp(id)))

\* the socket of the connection stored under k in table cl with descriptors t
SockIdOf(cl, t, k) ==
  IF cl[k].m_fd \in DOMAIN t /\ t[cl[k].m_fd].kind = "sock"
  THEN t[cl[k].m_fd].ref ELSE 0

\* the number of bytes of the stream of socket s that the server has read
\* and erased from the inbound buffer of connection c
Erased(c, s) == Len(s.sent) - Len(s.inq) - Len(c.m_readBuf)

\* the requests the clients send
KnownRequests == {reqGet, reqCgi, reqPostHead \o <<"W", "i">>}

-----------------------------------------------------------------------------
(* Properties of the parser *)

\* C6: Parser completeness.  For a well-formed request R, Parse answers
\* need-more without error on every proper prefix of R, and on R it answers
\* complete with the fields a single call on R yields, however R was split.
C6_ParserCompleteness ==
  (WellFormed(pspec) /\ pfed > 0) =>
     IF pfed < RequestLen
     THEN ~pret /\ ~Error(parser)
     ELSE pret /\ preq = OneShot.req

\* The same for requests whose framing header is spelled as the parser
\* compares it.
C6_CanonicalCompleteness ==
  (Canonical(pspec) /\ pfed > 0) =>
     IF pfed < RequestLen
     THEN ~pret /\ ~Error(parser)
     ELSE pret /\ preq = OneShot.req

\* C7: Chunked round-trip.  For a request whose body is a sequence of
\* hex-sized chunks ended by a zero-size chunk and CRLF, however the buffer
\* grew from call to call, the body decoded so far is the beginning of the
\* concatenation B of the payloads, and once the whole request was given
\* the parser reports complete with body B.
C7_ChunkedRoundTrip ==
  pspec.kind = "chunked" =>
     /\ IsPrefix(preq.body, Concat(pspec.chunks))
     /\ (pfed >= RequestLen) =>
           /\ pret
           /\ parser.m_state = kStateDone
           /\ preq.complete
           /\ preq.body = Concat(pspec.chunks)

\* a request of two chunks was completed by the third or a later call
C7_CompletedInSeveralCalls ==
  /\ pspec.kind = "chunked"
  /\ Len(pspec.chunks) = MaxChunks
  /\ pcalls >= 3
  /\ pfed = RequestLen
  /\ pret
  /\ preq.body = Concat(pspec.chunks)
  /\ preq.body # <<>>

\* C8: consumed().  Consumed() does not decrease from one Parse call to the
\* next on a growing buffer, and when the parser reaches DONE on a
\* well-formed request it is the number of bytes of that request: the header
\* block with its terminator and the fixed-length body, or the chunk framing
\* through the final CRLF.
C8_ConsumedMonotone ==
  [][(pfed' > pfed) =>
        /\ Consumed(parser') >= Consumed(parser)
        /\ (WellFormed(pspec) /\ parser'.m_state = kStateDone) =>
              Consumed(parser') = RequestLen]_vars

\* the header budget of the first server has run out for connection c
HeaderTimedOut(c) ==
  /\ ~c.m_headersComplete
  /\ c.m_parser.m_state = kStateRequestLine
  /\ now - c.m_createdAtMs > m_config[1].headerTimeoutMs

\* C9: Header timeout.  The sweep that finds a connection without a complete
\* header block after more than the header budget queues a 408 for it and
\* marks it CLOSING; and the step that sends the last of the response of a
\* CLOSING connection closes the connection.
C9_HeaderTimeout ==
  [][\A k \in DOMAIN m_clients :
        /\ (pc = "sweep" /\ HeaderTimedOut(m_clients[k])) =>
              /\ k \in DOMAIN m_clients'
              /\ m_clients'[k].m_phase = kPhaseClosing
              /\ m_clients'[k].m_writeBuf # <<>>
              /\ m_clients[k].m_writeBuf = <<>> =>
                    m_clients'[k].m_writeBuf =
                       buildResponse(408, rRequestTimeout, body408, sTextPlain,
                                     FALSE, FALSE)
        /\ (/\ m_clients[k].m_phase = kPhaseClosing
            /\ m_clients[k].m_writeBuf # <<>>
            /\ k \in DOMAIN m_clients') =>
              m_clients'[k].m_writeBuf # <<>>]_vars

\* the body budget of the server that the Host header of the request selects
BodyBudget(c) ==
  m_config[selectServer(m_config, c.m_request) + 1].bodyTimeoutMs

\* C10: Body timeout.  A connection whose header block is complete and whose
\* body is not is timed out by the sweep exactly when no bytes have arrived
\* for longer than the body budget of the selected server, counted from the
\* last activity.
C10_BodyTimeout ==
  [][\A k \in DOMAIN m_clients \cap DOMAIN m_clients' :
        (/\ pc = "sweep"
         /\ m_clients[k].m_parser.m_state = kStateBody
         /\ m_clients[k].m_phase # kPhaseClosing
         /\ m_clients[k].m_writeBuf = <<>>) =>
           (m_clients'[k].m_phase = kPhaseClosing
            <=> now - m_clients[k].m_lastActivityMs > BodyBudget(m_clients[k]))]_vars

-----------------------------------------------------------------------------
(* Timeouts of idle connections and of CGI children *)

\* the idle budget of the server of connection c
IdleBudget(c) == ServerOf(c).idleTimeoutMs

\* connection c went back to IDLE after a keep-alive response and nothing
\* has arrived on it for longer than the idle budget
IdleExpired(c) ==
  /\ c.m_phase = kPhaseIdle
  /\ c.m_writeBuf = <<>>
  /\ c.m_readBuf = <<>>
  /\ now - c.m_lastActivityMs > IdleBudget(c)

\* C11: Idle timeout.  The sweep that finds a connection that is back in
\* IDLE after a flushed response and has received nothing for longer than
\* the idle budget marks it CLOSING and queues nothing for it; and no step
\* sends anything on a connection that is CLOSING with an empty outbound
\* buffer.
C11_IdleTimeout ==
  [][\A k \in DOMAIN m_clients :
        /\ (pc = "sweep" /\ IdleExpired(m_clients[k])) =>
              /\ k \in DOMAIN m_clients'
              /\ m_clients'[k].m_phase = kPhaseClosing
              /\ m_clients'[k].m_writeBuf = <<>>
        /\ (/\ m_clients[k].m_phase = kPhaseClosing
            /\ m_clients[k].m_writeBuf = <<>>
            /\ SockIdOf(m_clients, fdt, k) # 0) =>
              socks'[SockIdOf(m_clients, fdt, k)].wire
                 = socks[SockIdOf(m_clients, fdt, k)].wire]_vars

\* the CGI budget of the server of connection c has run out
CgiExpired(c) ==
  /\ c.m_cgiActive
  /\ c.m_cgiPid > 0
  /\ c.m_cgiStartMs > 0
  /\ ServerOf(c).cgiTimeoutMs > 0
  /\ now - c.m_cgiStartMs > ServerOf(c).cgiTimeoutMs

Response504 ==
  buildResponse(504, rGatewayTimeout, body504, sTextPlain, FALSE, FALSE)

\* the open descriptors of the pipes of child pid
PipeFds(t, pid) ==
  {fd \in DOMAIN t : t[fd].kind \in {"stdin", "stdout"} /\ t[fd].ref = pid}

\* C12: CGI timeout.  The sweep that finds a connection whose CGI child is
\* still active after more than the CGI budget kills and reaps the child,
\* closes both pipe ends and takes them out of the pipe-fd map, and queues
\* the 504; nothing was sent to the client for the request before it, so
\* that the 504 is the reply the client receives.
C12_CgiTimeout ==
  [][\A k \in DOMAIN m_clients :
        (pc = "sweep" /\ CgiExpired(m_clients[k])) =>
           /\ k \in DOMAIN m_clients'
           /\ procs'[m_clients[k].m_cgiPid].state = "reaped"
           /\ PipeFds(fdt', m_clients[k].m_cgiPid) = {}
           /\ \A fd \in DOMAIN m_cgiFdToClient' :
                 fd \notin {m_clients[k].m_cgiInFd, m_clients[k].m_cgiOutFd}
           /\ ~m_clients'[k].m_cgiActive
           /\ m_clients'[k].m_writeBuf = Response504
           /\ SockIdOf(m_clients, fdt, k) # 0 =>
                 socks[SockIdOf(m_clients, fdt, k)].wire = <<>>]_vars

-----------------------------------------------------------------------------
(* Invariants of the tables *)

\* the children that exist and were not waited for
Unreaped == {pid \in DOMAIN procs : procs[pid].state # "reaped"}

\* the pipe end fd of the connection under k is registered and HandleCgiEvent
\* finds that connection through it
Registered(k, fd) ==
  fd >= 0 => /\ fd \in DOMAIN m_cgiFdToClient
             /\ m_cgiFdToClient[fd] = k

\* C13: CGI bookkeeping.  A connection whose CGI is active has recorded the
\* pid of a child that exists, no other child that was started for it is
\* left running or unreaped, and each of its pipe fds that is not closed is
\* in the pipe-fd map and leads to the connection.
C13_OneLiveChild ==
  \A k \in DOMAIN m_clients :
     m_clients[k].m_cgiActive =>
        /\ m_clients[k].m_cgiPid \in DOMAIN procs
        /\ Unreaped \subseteq {m_clients[k].m_cgiPid}
        /\ Registered(k, m_clients[k].m_cgiInFd)
        /\ Registered(k, m_clients[k].m_cgiOutFd)

(* Two clients at a time: the server of Spec with a second peer, each peer
   sending one request *)

MaxPeers == 2

ScriptsTwo == {<<reqGet>>, <<reqCgi>>}

\* a client connects while fewer than MaxPeers have
ClientConnectTwo ==
  /\ pc = "blocked"
  /\ Cardinality(DOMAIN socks) < MaxPeers
  /\ \E script \in ScriptsTwo :
        socks' = Put(socks, Cardinality(DOMAIN socks) + 1,
                     [state |-> "backlog",
                      port |-> PortOf(Cardinality(DOMAIN socks) + 1),
                      script |-> script,
                      sent |-> <<>>, inq |-> <<>>, hup |-> FALSE,
                      wire |-> <<>>])
  /\ UNCHANGED <<pvars, now, m_config, m_listenSockets, m_clients,
                 m_cgiFdToClient, m_pfds, pc, pollUntil, fdt, procs, fs,
                 uploadCounter>>

NextTwo ==
  \/ PollOnce
  \/ PollReturn
  \/ Sweep
  \/ DispatchCgi
  \/ DispatchAccept
  \/ DispatchClient
  \/ ClientConnectTwo
  \/ ClientSend
  \/ ClientHangup
  \/ ChildWrite
  \/ ChildExit
  \/ Tick

SpecTwo == Init /\ [][NextTwo]_vars

\* the sockets a step takes out of the backlog of a listening socket
AcceptedNow == {id \in DOMAIN socks : socks[id].state = "backlog"
                                       /\ socks'[id].state # "backlog"}

\* C14: Descriptor uniqueness.  No descriptor number is a key of the
\* connection table and of the pipe-fd map at once; and no number is the key
\* of two connections: a step that accepts connections adds one entry to the
\* table for each, and the entry under a key goes on standing for the socket
\* it stood for.
C14_FdUnique ==
  [][/\ DOMAIN m_clients' \cap DOMAIN m_cgiFdToClient' = {}
     /\ Cardinality(DOMAIN m_clients')
           >= Cardinality(DOMAIN m_clients \cap DOMAIN m_clients')
              + Cardinality(AcceptedNow)
     /\ \A k \in DOMAIN m_clients \cap DOMAIN m_clients' :
           SockIdOf(m_clients, fdt, k) # 0 =>
              SockIdOf(m_clients', fdt', k) = SockIdOf(m_clients, fdt, k)]_vars

\* the body length the request declares, its Content-Length in any spelling
DeclaredLength(req) ==
  LET named == {i \in 1..Len(req.headers) :
                  Lower(req.headers[i].name) = Lower(ContentLengthName)}
  IN IF named = {} THEN 0
     ELSE atoi(req.headers[CHOOSE i \in named : \A j \in named : i <= j].value)

\* C15: body_complete.  A connection whose body is marked complete has a
\* parser that is done with the current request and has consumed from the
\* inbound buffer the header block with its terminator and the declared
\* number of body bytes.
C15_BodyCompleteConsumed ==
  \A k \in DOMAIN m_clients :
     m_clients[k].m_bodyComplete =>
        /\ m_clients[k].m_parser.m_state = kStateDone
        /\ Consumed(m_clients[k].m_parser) <= Len(m_clients[k].m_readBuf)
        /\ Consumed(m_clients[k].m_parser)
              = Find(m_clients[k].m_readBuf, CRLFCRLF, 0) + 4
                + DeclaredLength(m_clients[k].m_request)

-----------------------------------------------------------------------------
(* Properties of the CGI controller *)

\* what the client of the connection under k is sent: what it has received
\* followed by what is queued for it
SentTo(k) ==
  (IF SockIdOf(m_clients, fdt, k) # 0
   THEN socks[SockIdOf(m_clients, fdt, k)].wire ELSE <<>>)
  \o m_clients[k].m_writeBuf

RECURSIVE BodyBytes(_)
\* the body bytes of a sequence of response tokens
BodyBytes(toks) ==
  IF toks = <<>> THEN <<>>
  ELSE (IF Head(toks).tok = "body" THEN Head(toks).bytes ELSE <<>>)
       \o BodyBytes(Tail(toks))

\* the values of the Content-Length headers of a sequence of response tokens
ContentLengths(toks) ==
  UNION {{toks[i].headers[j].value :
            j \in {y \in 1..Len(toks[i].headers) :
                     toks[i].headers[y].name = sContentLength}} :
           i \in {x \in 1..Len(toks) : toks[x].tok = "headers"}}

\* the status codes of a sequence of response tokens
StatusCodes(toks) ==
  {toks[i].code : i \in {x \in 1..Len(toks) : toks[x].tok = "status"}}

\* what the child wrote to stdout after its header block
AfterHeaderBlock(written) ==
  IF Find(written, CRLFCRLF, 0) = NPOS THEN <<>>
  ELSE SubStrFrom(written, Find(written, CRLFCRLF, 0) + 4)

\* the child of the connection under k has written a header block and has
\* exited, and the controller has translated its output and is done with it
CgiFinished(k) ==
  /\ m_clients[k].m_cgiHeadersDone
  /\ ~m_clients[k].m_cgiActive
  /\ m_clients[k].m_cgiPid \in DOMAIN procs
  /\ procs[m_clients[k].m_cgiPid].state \in {"zombie", "reaped"}

\* C16: CGI body.  When the child has exited and the controller is done
\* with it, the body of the translated response is all that the child wrote
\* after the first CRLF-CRLF, and the Content-Length the server inserted is
\* the number of these body bytes.
C16_CgiBodyRemainder ==
  \A k \in DOMAIN m_clients :
     CgiFinished(k) =>
        /\ BodyBytes(SentTo(k))
              = AfterHeaderBlock(procs[m_clients[k].m_cgiPid].written)
        /\ ContentLengths(SentTo(k)) = {Dec(Len(BodyBytes(SentTo(k))))}

\* C17: CGI failure.  The client is sent a 500 only if the child wrote no
\* complete header block to stdout.
C17_Cgi500OnlyWithoutHeaders ==
  \A k \in DOMAIN m_clients :
     (/\ 500 \in StatusCodes(SentTo(k))
      /\ m_clients[k].m_cgiPid \in DOMAIN procs) =>
        Find(procs[m_clients[k].m_cgiPid].written, CRLFCRLF, 0) = NPOS

\* C18: CGI stdin.  A call of the controller for a connection whose request
\* body has been written to the child whole, an empty body included, leaves
\* the stdin pipe closed, out of the pipe-fd map and not recorded in the
\* connection.
C18_CgiStdinClosed ==
  [][CgiEvent =>
       \A k \in DOMAIN m_clients \cap DOMAIN m_clients' :
          (/\ m_clients[k].m_cgiActive
           /\ m_clients[k].m_cgiInFd >= 0
           /\ m_clients'[k].m_cgiWriteOffset
                 >= Len(m_clients[k].m_request.body)) =>
             /\ m_clients'[k].m_cgiInFd = -1
             /\ m_clients[k].m_cgiInFd \notin DOMAIN m_cgiFdToClient'
             /\ m_clients[k].m_cgiInFd \notin DOMAIN fdt']_vars

-----------------------------------------------------------------------------
(* Errors of the parser *)

Response400 ==
  buildResponse(400, rBadRequest, body400, sTextPlain, FALSE, FALSE)

\* what a step sends to the client of the connection under k
SentNow(k) ==
  IF SockIdOf(m_clients, fdt, k) = 0 THEN <<>>
  ELSE SubSeq(socks'[SockIdOf(m_clients, fdt, k)].wire,
              Len(socks[SockIdOf(m_clients, fdt, k)].wire) + 1,
              Len(socks'[SockIdOf(m_clients, fdt, k)].wire))

\* the connection under k is left in the table with its parser in error
StaysInError(k) ==
  k \in DOMAIN m_clients' /\ Error(m_clients'[k].m_parser)

\* C19: Parser ERROR is terminal.  The step that finds the error queues the
\* 400 with Connection: close; once the parser of a connection is in error
\* it stays in error, the request is never complete and no step runs a
\* request handler for the connection (no file is written or removed, no
\* child is started); and a connection in error is in the table only as
\* long as some of its response is still to be sent.
C19_ParserErrorTerminal ==
  [][\A k \in DOMAIN m_clients :
        /\ (~Error(m_clients[k].m_parser) /\ StaysInError(k)) =>
              /\ SentNow(k) \o m_clients'[k].m_writeBuf = Response400
              /\ ~m_clients'[k].m_keepAlive
        /\ Error(m_clients[k].m_parser) =>
              /\ fs' = fs
              /\ procs' = procs
              /\ k \in DOMAIN m_clients' =>
                    /\ Error(m_clients'[k].m_parser)
                    /\ ~m_clients'[k].m_request.complete
                    /\ ~m_clients'[k].m_cgiActive
        /\ StaysInError(k) => m_clients'[k].m_writeBuf # <<>>]_vars

-----------------------------------------------------------------------------
(* Properties of the parser on long header blocks *)

\* the bytes given to Parse in the last call
Buffered == SubSeq(pstream, 1, pfed)

\* the size of the header region of the buffer: up to the terminator, or
\* all of it when there is none
HeaderRegion ==
  IF Find(Buffered, CRLFCRLF, 0) = NPOS THEN Len(Buffered)
  ELSE Find(Buffered, CRLFCRLF, 0)

\* C20: Header limit.  When Parse has been called on a buffer whose header
\* region is larger than 8192 bytes, with the terminator beyond the limit or
\* with no terminator yet, the parser is in ERROR and has not answered
\* need-more without it.
C20_HeaderLimit ==
  (pcalls > 0 /\ HeaderRegion > MaxHeaderBytes) =>
     /\ Error(parser)
     /\ ~pret

\* The part that is about a terminator found beyond the limit.
C20_TerminatorBeyondLimit ==
  (/\ pcalls > 0
   /\ Find(Buffered, CRLFCRLF, 0) # NPOS
   /\ Find(Buffered, CRLFCRLF, 0) > MaxHeaderBytes) =>
     /\ Error(parser)
     /\ ~pret


-----------------------------------------------------------------------------
(* Properties of the request handler *)

\* a step queues a response for the connection under k
Queues(k) ==
  /\ k \in DOMAIN m_clients'
  /\ m_clients'[k].m_writeBuf # <<>>
  /\ Head(m_clients'[k].m_writeBuf).tok = "status"
  /\ k \in DOMAIN m_clients => m_clients'[k].m_writeBuf # m_clients[k].m_writeBuf

\* the status code of the response a step queues
Queued(k) == Head(m_clients'[k].m_writeBuf).code

\* the values of the Connection headers of a sequence of response tokens
ConnectionValues(toks) ==
  UNION {{toks[i].headers[j].value :
            j \in {y \in 1..Len(toks[i].headers) :
                     toks[i].headers[y].name = sConnection}} :
           i \in {x \in 1..Len(toks) : toks[x].tok = "headers"}}

\* 4xx and 5xx, the timeouts among them, and the redirect
ForcesClose(code) == code >= 400 \/ code = 302

\* a step sends the last of what was queued for the connection under k and
\* leaves the connection in the table
FlushedAndKept(k) ==
  /\ k \in DOMAIN m_clients /\ k \in DOMAIN m_clients'
  /\ m_clients[k].m_writeBuf # <<>>
  /\ m_clients'[k].m_writeBuf = <<>>

\* C21: Error paths force close.  The step that queues a response with a
\* 4xx or 5xx status (from a handler, from the status a CGI child reports,
\* or a 408 or 504 of the sweep) or a 302 leaves keep_alive false and the
\* response carries Connection: close; and the step that sends the last of
\* such a response closes the connection: it does not stay in the table.
C21_ErrorPathsClose ==
  [][\A k \in DOMAIN m_clients' :
        /\ (Queues(k) /\ ForcesClose(Queued(k))) =>
              /\ ~m_clients'[k].m_keepAlive
              /\ ConnectionValues(m_clients'[k].m_writeBuf) = {sClose}
        /\ FlushedAndKept(k) =>
              \A code \in StatusCodes(SentTo(k)) : ~ForcesClose(code)]_vars

\* The same for the responses that the handlers and the sweep build
\* themselves, the CGI pass-through left aside.
C21_BuiltWithClose ==
  [][\A k \in DOMAIN m_clients' :
        (/\ Queues(k) /\ ForcesClose(Queued(k))
         /\ ~m_clients'[k].m_cgiHeadersDone) =>
           /\ ~m_clients'[k].m_keepAlive
           /\ ConnectionValues(m_clients'[k].m_writeBuf) = {sClose}]_vars

\* the Connection header of a request
ConnectionOf(req) == hasHeader(req, sConnection)

\* the policy asks for keep-alive: HTTP/1.1 without Connection: close, or
\* another version with Connection: keep-alive
MustKeep(req) ==
  IF req.version = sHTTP11
  THEN ~(ConnectionOf(req).found /\ Lower(ConnectionOf(req).value) = sClose)
  ELSE ConnectionOf(req).found /\ ConnectionOf(req).value = sKeepAlive

\* the policy asks for close: HTTP/1.1 with Connection: close in any case of
\* letters, or another version without Connection: keep-alive
MustClose(req) ==
  IF req.version = sHTTP11
  THEN ConnectionOf(req).found /\ Lower(ConnectionOf(req).value) = sClose
  ELSE ~(/\ ConnectionOf(req).found
         /\ Lower(ConnectionOf(req).value) = sKeepAlive)

Succeeds(code) == code >= 200 /\ code < 300

\* C22: Keep-alive policy.  The step that queues a 2xx response, built by a
\* handler or translated from the output of a CGI child, sets keep_alive as
\* the version and the Connection header of the request ask, and the
\* response carries the matching Connection header.
C22_KeepAlivePolicy ==
  [][\A k \in DOMAIN m_clients' :
        (Queues(k) /\ Succeeds(Queued(k))) =>
           /\ MustKeep(m_clients'[k].m_request) =>
                 /\ m_clients'[k].m_keepAlive
                 /\ ConnectionValues(m_clients'[k].m_writeBuf) = {sKeepAlive}
           /\ MustClose(m_clients'[k].m_request) =>
                 /\ ~m_clients'[k].m_keepAlive
                 /\ ConnectionValues(m_clients'[k].m_writeBuf) = {sClose}]_vars

Response408 ==
  buildResponse(408, rRequestTimeout, body408, sTextPlain, FALSE, FALSE)

\* what is queued for the connection under k is a timeout response of the
\* sweep, or what is left of one
TimeoutQueued(k) ==
  /\ m_clients[k].m_writeBuf # <<>>
  /\ \/ IsSuffix(m_clients[k].m_writeBuf, Response408)
     \/ IsSuffix(m_clients[k].m_writeBuf, Response504)

\* the client of the connection under k has gone away
PeerGone(k) ==
  /\ SockIdOf(m_clients, fdt, k) # 0
  /\ socks[SockIdOf(m_clients, fdt, k)].hup

\* C23: Timeout responses flush.  While a 408 or 504 that the sweep queued,
\* or a part of it, is in the outbound buffer, a step leaves the connection
\* in the table and does nothing to the buffer but send from its front,
\* unless the client has gone away; and the sweep queues the timeout
\* response only when nothing of another response is left to send.
C23_TimeoutFlushes ==
  [][\A k \in DOMAIN m_clients :
        /\ TimeoutQueued(k) =>
              \/ /\ k \in DOMAIN m_clients'
                 /\ SentNow(k) \o m_clients'[k].m_writeBuf
                    = m_clients[k].m_writeBuf
              \/ PeerGone(k)
        /\ (/\ pc = "sweep"
            /\ Queues(k)
            /\ Queued(k) \in {408, 504}) => m_clients[k].m_writeBuf = <<>>]_vars

\* the routes whose path is a prefix of uri
PrefixRoutes(routes, uri) ==
  {i \in 1..Len(routes) : StartsWith(uri, routes[i].path)}

\* among them the one with the longest path, the first of these; 0 if none
BestRoute(routes, uri) ==
  IF PrefixRoutes(routes, uri) = {} THEN 0
  ELSE CHOOSE i \in PrefixRoutes(routes, uri) :
         \A j \in PrefixRoutes(routes, uri) :
            \/ Len(routes[j].path) < Len(routes[i].path)
            \/ Len(routes[j].path) = Len(routes[i].path) /\ i <= j

\* a step completes the request of the connection under k and hands it to
\* the handler, which finds the body within the limit of the selected server
Routed(k) ==
  /\ k \in DOMAIN m_clients /\ k \in DOMAIN m_clients'
  /\ ~m_clients[k].m_request.complete
  /\ m_clients'[k].m_request.complete
  /\ Len(m_clients'[k].m_request.body)
        <= m_config[m_clients'[k].m_serverIndex + 1].clientMaxBodySize

\* C24: Route longest-prefix.  For the URI of a request and the routes of
\* either server, matchRoute returns the first of the routes with the
\* longest path among those whose path is a prefix of the URI, and none when
\* no path is a prefix; and a request that is handed to the handler with its
\* body within the limit and has no such route is answered 404.
C24_RouteLongestPrefix ==
  [][\A k \in DOMAIN m_clients' :
        m_clients'[k].m_request.complete =>
           /\ \A s \in 1..Len(m_config) :
                 matchRoute(m_config[s], m_clients'[k].m_request.uri)
                 = BestRoute(m_config[s].routes, m_clients'[k].m_request.uri)
           /\ (/\ Routed(k)
               /\ BestRoute(m_config[m_clients'[k].m_serverIndex + 1].routes,
                            m_clients'[k].m_request.uri) = 0) =>
                 /\ Queues(k)
                 /\ Queued(k) = 404]_vars

\* a request for /s/t, which four routes of the first server match by
\* prefix, two of them of equal length, was answered from the longest
C24_LongestOfFour ==
  \E k \in DOMAIN m_clients :
     /\ m_clients[k].m_request.complete
     /\ m_clients[k].m_request.uri = <<"/", "s", "/", "t">>
     /\ m_clients[k].m_serverIndex = 0
     /\ PrefixRoutes(RoutesA, m_clients[k].m_request.uri) = {1, 2, 3, 4}
     /\ matchRoute(m_config[1], m_clients[k].m_request.uri) = 4
     /\ 200 \in StatusCodes(SentTo(k))

\* the value of the Host header of a request without its port suffix
HostName(req) ==
  IF Find(hasHeader(req, sHost).value, <<":">>, 0) = NPOS
  THEN hasHeader(req, sHost).value
  ELSE SubStr(hasHeader(req, sHost).value, 0,
              Find(hasHeader(req, sHost).value, <<":">>, 0))

\* the servers one of whose names is that host, whatever the case of letters
NamedServers(cfg, req) ==
  {i \in 1..Len(cfg) :
     \E j \in 1..Len(cfg[i].serverNames) :
        Lower(cfg[i].serverNames[j]) = Lower(HostName(req))}

\* the 0-based index of the first of them, of the first server if none
ExpectedServer(cfg, req) ==
  IF ~hasHeader(req, sHost).found \/ NamedServers(cfg, req) = {} THEN 0
  ELSE (CHOOSE i \in NamedServers(cfg, req) :
          \A j \in NamedServers(cfg, req) : i <= j) - 1

\* C25: Virtual host exactness.  For a request that was handed to the
\* handler, selectServer returns, and the connection records, the first
\* server one of whose names equals the Host value without its port suffix,
\* letters compared without regard to case, and the first server when there
\* is no such server or no Host header.
C25_VirtualHost ==
  \A k \in DOMAIN m_clients :
     m_clients[k].m_request.complete =>
        /\ selectServer(m_config, m_clients[k].m_request)
           = ExpectedServer(m_config, m_clients[k].m_request)
        /\ m_clients[k].m_serverIndex
           = ExpectedServer(m_config, m_clients[k].m_request)

\* the route of the selected server that the request of a connection matches
RouteOf(c) ==
  m_config[c.m_serverIndex + 1].routes[
    BestRoute(m_config[c.m_serverIndex + 1].routes, c.m_request.uri)]

\* the request of the connection matches a route, and what of its URI comes
\* after the path of the route contains ".."
Traverses(c) ==
  /\ BestRoute(m_config[c.m_serverIndex + 1].routes, c.m_request.uri) # 0
  /\ Find(SubStrFrom(c.m_request.uri, Len(RouteOf(c).path)), sDotDot, 0)
     # NPOS

\* the method filter of the route refuses the method of the request
Filtered(c) ==
  /\ RouteOf(c).methods # <<>>
  /\ \A i \in 1..Len(RouteOf(c).methods) :
        RouteOf(c).methods[i] # c.m_request.method

\* the body of a listing of a directory
IsListing(body) == StartsWith(body, <<"<", "h", "t", "m", "l", ">", "<", "b", "o", "d", "y", ">", "<", "h", "1", ">", "I", "n", "d", "e", "x", " ", "o", "f", " ">>)

RelOf(c) ==
  LET rel0 == SubStrFrom(c.m_request.uri, Len(RouteOf(c).path))
  IN IF (rel0 = <<>> \/ rel0 = sSlash) /\ RouteOf(c).index # <<>>
     THEN sSlash \o RouteOf(c).index ELSE rel0

\* the path in the file system the request of the connection is about
TargetOf(c) == RouteOf(c).root \o RelOf(c)

\* the request of the connection passes the method filter, the redirect and
\* the traversal guard of a route it matches
ReachesTarget(c) ==
  /\ BestRoute(m_config[c.m_serverIndex + 1].routes, c.m_request.uri) # 0
  /\ ~Filtered(c)
  /\ RouteOf(c).redirect = <<>>
  /\ ~Traverses(c)

\* the target of the request is a script of the route
IsCgiTarget(c) ==
  /\ RouteOf(c).cgiExtension # <<>>
  /\ EndsWith(TargetOf(c), RouteOf(c).cgiExtension)

\* C27: POST without uploads, and other methods.  A request that reaches its
\* target, which is neither a script nor a directory, and is a POST to a
\* route without uploads or has a method other than GET, HEAD, POST and
\* DELETE, is answered 405, whether the target is a readable file or not.
C27_OtherMethods405 ==
  [][\A k \in DOMAIN m_clients' :
        (/\ Routed(k)
         /\ ReachesTarget(m_clients'[k])
         /\ ~IsCgiTarget(m_clients'[k])
         /\ ~isDir(fs, TargetOf(m_clients'[k]))
         /\ \/ /\ m_clients'[k].m_request.method = sPOST
               /\ ~RouteOf(m_clients'[k]).uploadsEnabled
            \/ m_clients'[k].m_request.method
               \notin {sGET, sHEAD, sPOST, sDELETE}) =>
           /\ Queues(k)
           /\ Queued(k) = 405]_vars

\* C28: DELETE.  A DELETE that reaches its target, which is not a script:
\* a regular file is unlinked with 204, or stays with 500; a directory is
\* answered 403 and nothing is listed or removed, whatever the autoindex of
\* the route; a missing target is answered 404.
C28_Delete ==
  [][\A k \in DOMAIN m_clients' :
        (/\ Routed(k)
         /\ ReachesTarget(m_clients'[k])
         /\ ~IsCgiTarget(m_clients'[k])
         /\ m_clients'[k].m_request.method = sDELETE) =>
           /\ Queues(k)
           /\ CanReadFile(fs, TargetOf(m_clients'[k])) =>
                 \/ /\ Queued(k) = 204
                    /\ fs' = Del(fs, TargetOf(m_clients'[k]))
                 \/ /\ Queued(k) = 500
                    /\ fs' = fs
           /\ isDir(fs, TargetOf(m_clients'[k])) =>
                 /\ Queued(k) = 403
                 /\ fs' = fs
                 /\ ~IsListing(BodyBytes(m_clients'[k].m_writeBuf))
           /\ TargetOf(m_clients'[k]) \notin DOMAIN fs =>
                 /\ Queued(k) = 404
                 /\ fs' = fs]_vars

\* the status codes of the error responses of the server
ErrorCodes == {400, 403, 404, 405, 408, 413, 500, 501, 504}

\* the error page the server of the connection has for a status code, <<>>
\* when it has none or an empty one
ErrorPage(c, code) ==
  loadErrorPageBody(fs, m_config[c.m_serverIndex + 1], code, <<>>)

\* C29: Error pages.  When a step queues an error response of the server
\* itself (not one a CGI child produced) and the server of the connection
\* has a non-empty <error_page_root>/<code>.html, the Content-Length of the
\* response is the length of that file and its body is the contents of the
\* file, or empty for HEAD.
C29_ErrorPages ==
  [][\A k \in DOMAIN m_clients' :
        (/\ Queues(k)
         /\ Queued(k) \in ErrorCodes
         /\ ~m_clients'[k].m_cgiHeadersDone
         /\ ErrorPage(m_clients'[k], Queued(k)) # <<>>) =>
           /\ ContentLengths(m_clients'[k].m_writeBuf)
              = {Dec(Len(ErrorPage(m_clients'[k], Queued(k))))}
           /\ BodyBytes(m_clients'[k].m_writeBuf)
              = IF IsHead(m_clients'[k].m_request) THEN <<>>
                ELSE ErrorPage(m_clients'[k], Queued(k))]_vars

\* C30: HEAD identity.  The response queued for a completed HEAD request has
\* an empty body, be it for a file, a listing, an error or a CGI target; and
\* for a readable file that is not a script it has the status and the
\* Content-Length of the GET response, 200 and the size of the file.
C30_HeadIdentity ==
  [][\A k \in DOMAIN m_clients' :
        (/\ Queues(k)
         /\ m_clients'[k].m_request.complete
         /\ IsHead(m_clients'[k].m_request)) =>
           /\ BodyBytes(m_clients'[k].m_writeBuf) = <<>>
           /\ (/\ Routed(k)
               /\ ReachesTarget(m_clients'[k])
               /\ ~IsCgiTarget(m_clients'[k])
               /\ CanReadFile(fs, TargetOf(m_clients'[k]))) =>
                 /\ Queued(k) = 200
                 /\ ContentLengths(m_clients'[k].m_writeBuf)
                    = {Dec(Len(fs[TargetOf(m_clients'[k])].data))}]_vars

-----------------------------------------------------------------------------
(* Uploads, descriptors, shutdown and the life of a connection *)

\* the file parts of a form
FilePartsOf(parts) == {i \in 1..Len(parts) : parts[i].hasFile}

\* what a step that saves a form leaves: the files that were there, and one
\* new file for each file part, holding the content of the part, with its
\* size in the text of the response; nothing for the other parts
SavedExactly(k, parts) ==
  /\ \A p \in DOMAIN fs : p \in DOMAIN fs' /\ fs'[p] = fs[p]
  /\ Cardinality(DOMAIN fs' \ DOMAIN fs) = Cardinality(FilePartsOf(parts))
  /\ \A i \in FilePartsOf(parts) :
        \E p \in DOMAIN fs' \ DOMAIN fs :
           /\ fs'[p] = File(parts[i].content)
           /\ Find(BodyBytes(m_clients'[k].m_writeBuf),
                   <<"'", " ", "-", ">", " ">> \o p \o <<" ", "(">> \o Dec(Len(parts[i].content))
                   \o <<")", LF>>, 0) # NPOS

\* C31: Upload integrity.  When the body of a POST to a route with uploads
\* is a multipart form, each file part whose content C has no boundary
\* delimiter is written to a file whose contents are exactly C and reported
\* with the size of C, and the parts without a filename write nothing.
C31_UploadIntegrity ==
  [][\A k \in DOMAIN m_clients' :
        \A parts \in Forms :
           (/\ Routed(k)
            /\ m_clients'[k].m_request.body = MultipartBody(parts)) =>
              SavedExactly(k, parts)]_vars

\* the descriptors the FD objects own
Owned == {handles[h] : h \in DOMAIN handles} \ {-1}

\* each open descriptor has exactly one holder, an FD object or the caller;
\* what an FD object owns is open; no close has hit a closed descriptor
FdOwnership ==
  /\ \A h1 \in DOMAIN handles, h2 \in DOMAIN handles :
        (h1 # h2 /\ handles[h1] >= 0) => handles[h1] # handles[h2]
  /\ Owned \cap (kernel.fresh \cup kernel.released) = {}
  /\ kernel.open = Owned \cup kernel.fresh \cup kernel.released
  /\ kernel.badCloses = 0

\* C32: Fd handle.  Over every sequence of constructions, copies,
\* assignments, resets, releases and destructions, with reset given only
\* descriptors no other handle owns: a descriptor has one owner and is open
\* while owned, none is closed twice and none is left open without a holder;
\* a copy owns nothing or a descriptor that was not open before; when an
\* object gives up a descriptor by assignment, reset or destruction the
\* descriptor is closed, and when it gives it up by release the descriptor
\* stays open with the caller.
C32_FdHandle ==
  [][/\ FdOwnership'
     /\ \A h \in DOMAIN handles' \ DOMAIN handles :
           \/ handles'[h] = -1
           \/ handles'[h] \in kernel.fresh
           \/ handles'[h] \in kernel'.open \ kernel.open
     /\ \A h \in DOMAIN handles :
           (/\ handles[h] >= 0
            /\ h \in DOMAIN handles' => handles'[h] # handles[h]) =>
              IF FdRelease
              THEN handles[h] \in kernel'.open \cap kernel'.released
              ELSE handles[h] \notin kernel'.open]_vars

\* two FD objects own different descriptors, nothing waits for an owner, the
\* caller holds a released descriptor and the table has a free place
C32_CopiedAndReleased ==
  /\ \E h1 \in DOMAIN handles, h2 \in DOMAIN handles :
        h1 # h2 /\ handles[h1] >= 0 /\ handles[h2] >= 0
  /\ kernel.fresh = {}
  /\ kernel.released # {}
  /\ kernel.open # Descriptors

\* nothing of the server is left: no connection, no listening socket, no
\* descriptor but the standard three, no entry of the pipe map, no child
\* that runs or waits to be reaped
Reclaimed ==
  /\ m_clients = Empty
  /\ m_listenSockets = <<>>
  /\ \A fd \in DOMAIN fdt : fdt[fd] = Stdio
  /\ \A i \in DOMAIN socks : socks[i].state \in {"backlog", "closed"}
  /\ m_cgiFdToClient = Empty
  /\ \A pid \in DOMAIN procs : procs[pid].state = "reaped"

\* C33: Shutdown reclaims.  When Shutdown returns, the connection table is
\* empty, every client socket and listening socket is closed, no CGI pipe
\* is open, the pipe map is empty and no CGI child runs or is unreaped.
C33_ShutdownReclaims ==
  [][(Running /\ ~Running') => Reclaimed']_vars

\* the connection under k holds a completed request, or one in error,
\* before and after a step, and it is the same request
SameRequest(k) ==
  /\ k \in DOMAIN m_clients /\ k \in DOMAIN m_clients'
  /\ m_clients[k].m_request.complete \/ Error(m_clients[k].m_parser)
  /\ m_clients'[k].m_request = m_clients[k].m_request
  /\ m_clients'[k].m_parser.m_state = m_clients[k].m_parser.m_state

\* C34: Handled once.  While a connection holds the same completed request,
\* no step saves an upload, unlinks a file or starts a CGI child for it: the
\* handler ran when the request was completed and does not run again.
C34_HandledOnce ==
  [][(\E k \in DOMAIN m_clients : SameRequest(k)) =>
        /\ fs' = fs
        /\ uploadCounter' = uploadCounter
        /\ DOMAIN procs' = DOMAIN procs]_vars

\* new is what is left of old after a send has taken some of its front
RestOf(old, new) ==
  \E n \in 0..Len(old) : new = SubSeq(old, n + 1, Len(old))

\* C35: Response stream integrity.  While the outbound buffer of a
\* connection is not empty, a step only takes from its front: what it
\* leaves is a rest of what was queued, never another response.
C35_StreamIntegrity ==
  [][\A k \in DOMAIN m_clients \cap DOMAIN m_clients' :
        m_clients[k].m_writeBuf # <<>> =>
           RestOf(m_clients[k].m_writeBuf, m_clients'[k].m_writeBuf)]_vars

\* C36: CLOSING is absorbing.  A connection the sweep has marked CLOSING
\* stays CLOSING for as long as it is in the table, its keep_alive stays
\* false and no request is parsed or handled on it.
C36_ClosingAbsorbing ==
  [][\A k \in DOMAIN m_clients \cap DOMAIN m_clients' :
        m_clients[k].m_phase = kPhaseClosing =>
           /\ m_clients'[k].m_phase = kPhaseClosing
           /\ ~m_clients'[k].m_keepAlive
           /\ m_clients'[k].m_request = m_clients[k].m_request]_vars

\* C37: Key and handle.  For every entry of the connection table the key is
\* the descriptor of the FD handle of the connection, that descriptor is an
\* open socket, and the client recorded for a CGI pipe in the pipe map is a
\* key of the table.
C37_KeyIsHandle ==
  /\ \A k \in DOMAIN m_clients :
        /\ m_clients[k].m_fd = k
        /\ k \in DOMAIN fdt
        /\ fdt[k].kind = "sock"
  /\ \A p \in DOMAIN m_cgiFdToClient :
        m_cgiFdToClient[p] \in DOMAIN m_clients

\* the per-request fields of a connection
PerRequest(c) ==
  <<c.m_headersComplete, c.m_bodyComplete, c.m_cgiActive, c.m_cgiHeadersDone,
    c.m_cgiBuffer, c.m_cgiWriteOffset, c.m_cgiPid, c.m_cgiInFd, c.m_cgiOutFd>>

\* C38: Reset on keep-alive.  When a step returns a connection to IDLE, its
\* headers_complete and body_complete flags are false and its CGI sub-state
\* (active flag, headers-parsed flag, buffer, body-write offset, pid and pipe
\* descriptors) is that of a freshly accepted connection.
C38_KeepAliveReset ==
  [][\A k \in DOMAIN m_clients \cap DOMAIN m_clients' :
        (/\ m_clients[k].m_phase # kPhaseIdle
         /\ m_clients'[k].m_phase = kPhaseIdle) =>
           PerRequest(m_clients'[k]) = PerRequest(NewConnection)]_vars

\* the peer of connection k has ended its stream, all it sent has been read,
\* and no response is queued
PeerClosed(k) ==
  /\ k \in DOMAIN m_clients
  /\ SockOf(World, m_clients[k].m_fd) # 0
  /\ socks[SockOf(World, m_clients[k].m_fd)].state = "shut"
  /\ socks[SockOf(World, m_clients[k].m_fd)].inq = <<>>
  /\ m_clients[k].m_writeBuf = <<>>

\* C39: Peer close.  When the peer has closed its side of a connection (recv
\* reports end of stream) and no response is queued, the connection is
\* eventually removed from the connection table and its socket closed.
C39_PeerCloseRemoves ==
  (\E k \in DOMAIN m_clients : PeerClosed(k)) ~>
     (/\ m_clients = Empty
      /\ \A id \in DOMAIN socks : socks[id].state = "closed")

\* a URI without its query, and the query of a URI
PathOf(uri) ==
  IF Find(uri, <<"?">>, 0) # NPOS THEN SubStr(uri, 0, Find(uri, <<"?">>, 0))
  ELSE uri
QueryOf(uri) ==
  IF Find(uri, <<"?">>, 0) # NPOS
  THEN SubStrFrom(uri, Find(uri, <<"?">>, 0) + 1) ELSE <<>>

\* the path of the URI of the request, its query left aside, ends with the
\* CGI extension of the route
PathIsScript(c) ==
  /\ RouteOf(c).cgiExtension # <<>>
  /\ EndsWith(PathOf(c.m_request.uri), RouteOf(c).cgiExtension)

\* the children a step starts
NewChildren == DOMAIN procs' \ DOMAIN procs

\* C40: CGI dispatch and query.  A request that reaches its target and whose
\* URI path, the query left aside, ends with the CGI extension of the route
\* goes to the CGI controller: the step starts one child, with PATH_INFO the
\* URI without the query and QUERY_STRING the query, or, when no child can
\* be started, queues 500; it is not served as a static file.
C40_CgiQuery ==
  [][\A k \in DOMAIN m_clients' :
        (/\ Routed(k)
         /\ ReachesTarget(m_clients'[k])
         /\ PathIsScript(m_clients'[k])) =>
           \/ /\ Cardinality(NewChildren) = 1
              /\ \A pid \in NewChildren :
                    /\ procs'[pid].env.PATH_INFO
                       = PathOf(m_clients'[k].m_request.uri)
                    /\ procs'[pid].env.QUERY_STRING
                       = QueryOf(m_clients'[k].m_request.uri)
              /\ m_clients'[k].m_phase = kPhaseHandle
           \/ /\ NewChildren = {}
              /\ Queues(k)
              /\ Queued(k) = 500]_vars

=============================================================================
